---- MODULE Spec2Model ----
(***************************************************************************)
(* The keyword-based interview answer evaluator of                         *)
(* src/answer_evaluator.py (class AdvancedKeywordEvaluator) and the        *)
(* callers that hand it interview sessions.                                *)
(*                                                                         *)
(* Texts are TLA+ strings, read character by character.  Python floats are *)
(* carried as exact fractions [n, d]; a score that the code rounds to one  *)
(* decimal is carried as an integer number of tenths (73 is 7.3), one that *)
(* it rounds to two decimals as an integer number of hundredths.           *)
(***************************************************************************)
EXTENDS Integers, Sequences, FiniteSets, TLC

VARIABLES
    question_criteria,   \* self.question_criteria: question index -> rubric entry
    semantic_groups,     \* self.semantic_groups: the families, in dictionary order
    synonyms,            \* self.synonyms: term -> alternate phrasings
    round_up_ties,       \* the direction in which round() settles an exact tie
    transcript,          \* the transcript the caller passes to an entry point
    question_index,      \* the question index the caller passes with it
    last_call,           \* the caller's last call and how it ended
    questions_data,      \* the list object session_data["questions_data"]
    session_data,        \* the caller's session dictionary
    enhanced_session,    \* the dictionary evaluate_full_interview returned
    threads,             \* the threads running beside the caller
    controller           \* the InterviewSystem object and Tk's pending callbacks

vars == <<question_criteria, semantic_groups, synonyms, round_up_ties,
          transcript, question_index, last_call,
          questions_data, session_data, enhanced_session, threads,
          controller>>

----------------------------------------------------------------------------
(* Bounds of the model *)

\* most phrases a generated transcript is put together from
MaxPhrases == 2
\* most items a session holds
MaxItems == 3
\* most concurrent evaluations on one evaluator
MaxThreads == 3

----------------------------------------------------------------------------
(* Exact fractions standing for Python floats *)

RECURSIVE GCD(_, _)
GCD(a, b) == IF b = 0 THEN a ELSE GCD(b, a % b)

Abs(x) == IF x < 0 THEN -x ELSE x

\* the fraction n/d in lowest terms, d > 0
Dec(n, d) ==
    LET Reduced(g) == [n |-> n \div g, d |-> d \div g]
    IN  IF n = 0 THEN [n |-> 0, d |-> 1] ELSE Reduced(GCD(Abs(n), d))

Whole(k) == [n |-> k, d |-> 1]
RAdd(x, y) == Dec(x.n * y.d + y.n * x.d, x.d * y.d)
RSub(x, y) == Dec(x.n * y.d - y.n * x.d, x.d * y.d)
RMul(x, y) == Dec(x.n * y.n, x.d * y.d)
RLe(x, y) == x.n * y.d <= y.n * x.d
RLt(x, y) == x.n * y.d < y.n * x.d
RMin(x, y) == IF RLe(x, y) THEN x ELSE y
RMax(x, y) == IF RLe(x, y) THEN y ELSE x

\* floor of the fraction x (TLA+ \div rounds toward minus infinity)
Floor(x) == x.n \div x.d

\* round(x, ndigits) in units of 1/scale (scale = 10 for one decimal, 100 for
\* two).  Off a tie the nearest unit; on an exact decimal tie the binary
\* representation error of the float decides, which the fractions do not
\* carry: the direction is then the one fixed in round_up_ties.
Round(x, scale) ==
    LET \* fl whole units and half of twice/d of a unit
        Settle(fl, twice, d) ==
            IF twice > d THEN fl + 1
            ELSE IF twice < d THEN fl
            ELSE IF round_up_ties THEN fl + 1 ELSE fl
        Units(y) == Settle(Floor(y), 2 * (y.n - Floor(y) * y.d), y.d)
    IN  Units(RMul(x, Whole(scale)))

----------------------------------------------------------------------------
(* Python str and re on the characters the transcripts are made of *)

Char(s, i) == SubSeq(s, i, i)

\* keyword in text
StrIn(k, t) == \E i \in 0..(Len(t) - Len(k)) : SubSeq(t, i + 1, i + Len(k)) = k

UpperLetters == "ABCDEFGHIJKLMNOPQRSTUVWXYZ"
LowerLetters == "abcdefghijklmnopqrstuvwxyz"
DigitChars == "0123456789"

\* \s of re and the whitespace of str.split / str.strip
IsSpace(c) == c \in {" ", "\t", "\n"}

\* \w of re
IsWordChar(c) == Len(c) = 1 /\ (StrIn(c, UpperLetters) \/ StrIn(c, LowerLetters)
                                \/ StrIn(c, DigitChars) \/ c = "_")

LowerChar(c) ==
    IF StrIn(c, UpperLetters)
    THEN Char(LowerLetters, CHOOSE i \in 1..26 : Char(UpperLetters, i) = c)
    ELSE c

\* the concatenation of F(lo), ..., F(hi)
RECURSIVE ConcatRange(_, _, _)
ConcatRange(F(_), lo, hi) ==
    IF lo > hi THEN ""
    ELSE IF lo = hi THEN F(lo)
    ELSE LET mid == (lo + hi) \div 2
         IN  ConcatRange(F, lo, mid) \o ConcatRange(F, mid + 1, hi)

\* str.lower()
str_lower(s) == LET F(i) == LowerChar(Char(s, i)) IN ConcatRange(F, 1, Len(s))

\* str.strip()
str_strip(s) ==
    LET Between(solid) ==
            IF solid = {} THEN ""
            ELSE SubSeq(s, CHOOSE i \in solid : \A j \in solid : i <= j,
                           CHOOSE i \in solid : \A j \in solid : j <= i)
    IN  Between({i \in 1..Len(s) : ~IsSpace(Char(s, i))})

\* the length of the text counted in characters that are not whitespace
str_split_len_characters(s) ==
    Cardinality({i \in 1..Len(s) : ~IsSpace(Char(s, i))})

\* len(text.split())
str_split_len(s) ==
    Cardinality({i \in 1..Len(s) :
                    ~IsSpace(Char(s, i)) /\ (i = 1 \/ IsSpace(Char(s, i - 1)))})

\* str.replace(old, new) for a one-character old
str_replace_char(s, old, new) ==
    LET F(i) == IF Char(s, i) = old THEN new ELSE Char(s, i)
    IN  ConcatRange(F, 1, Len(s))

\* re.sub(r'\s+', ' ', text): every run of whitespace becomes one space
re_sub_spaces(s) ==
    LET F(i) == IF ~IsSpace(Char(s, i)) THEN Char(s, i)
                ELSE IF i > 1 /\ IsSpace(Char(s, i - 1)) THEN "" ELSE " "
    IN  ConcatRange(F, 1, Len(s))

\* re.sub(pat, rep, text) for a literal pat no occurrence of which overlaps
\* another (true of the seven contraction patterns: none has a border)
re_sub_literal(pat, rep, s) ==
    LET At(i) == i >= 1 /\ i + Len(pat) - 1 <= Len(s) /\ SubSeq(s, i, i + Len(pat) - 1) = pat
        F(i) == IF At(i) THEN rep
                ELSE IF \E j \in (i - Len(pat) + 1)..(i - 1) : At(j) THEN ""
                ELSE Char(s, i)
    IN  ConcatRange(F, 1, Len(s))

\* position p of s (p characters to its left) is a \b of re
IsWordBoundary(s, p) ==
    LET left == p >= 1 /\ IsWordChar(Char(s, p))
        right == p < Len(s) /\ IsWordChar(Char(s, p + 1))
    IN  left # right

\* bool(re.search(r'\b' + re.escape(keyword) + r'\b', text))
re_search_bounded(keyword, text) ==
    \E i \in 0..(Len(text) - Len(keyword)) :
        /\ SubSeq(text, i + 1, i + Len(keyword)) = keyword
        /\ IsWordBoundary(text, i)
        /\ IsWordBoundary(text, i + Len(keyword))

\* ", ".join(items)
RECURSIVE str_join(_, _)
str_join(sep, items) ==
    IF items = <<>> THEN ""
    ELSE IF Len(items) = 1 THEN items[1]
    ELSE items[1] \o sep \o str_join(sep, Tail(items))

\* seq[:n]
Take(seq, n) == SubSeq(seq, 1, IF Len(seq) < n THEN Len(seq) ELSE n)

----------------------------------------------------------------------------
(* The regular expressions of the rubric's context_patterns, as re parses   *)
(* them, and re.findall(pattern, text, re.IGNORECASE)                       *)

Lit(text) == [op |-> "literal", text |-> text]
AnyChar == [op |-> "any"]
Space == [op |-> "category", category |-> "space"]
Word == [op |-> "category", category |-> "word"]
Digit == [op |-> "category", category |-> "digit"]
Star(item) == [op |-> "max_repeat", min |-> 0, unbounded |-> TRUE, item |-> item]
Plus(item) == [op |-> "max_repeat", min |-> 1, unbounded |-> TRUE, item |-> item]
Opt(item) == [op |-> "max_repeat", min |-> 0, unbounded |-> FALSE, item |-> item]
Group(group, items) == [op |-> "subpattern", group |-> group, items |-> items]
Branch(alternatives) == [op |-> "branch", alternatives |-> alternatives]
Pattern(source, groups, items) ==
    [source |-> source, groups |-> groups, items |-> items]

NoMatch == [matched |-> FALSE]

\* one character c against a one-character item
CharMatches(item, c) ==
    CASE item.op = "any" -> c # "\n"
      [] item.op = "category" ->
            CASE item.category = "space" -> IsSpace(c)
              [] item.category = "word" -> IsWordChar(c)
              [] item.category = "digit" -> StrIn(c, DigitChars)
      [] item.op = "literal" -> str_lower(c) = str_lower(item.text)

\* The first match, in re's backtracking order, of the items todo at offset
\* pos of text (pos characters lie to the left).  A repeat is greedy; an
\* unbounded repeat is only ever applied to a one-character item.
\* result if it is a match, otherwise the alternative
OrElse(result, alternative) == IF result.matched THEN result ELSE alternative

\* how many characters from offset pos on the one-character item matches in
\* a row
run_length(item, text, pos) ==
    LET left == Len(text) - pos
    IN  IF \A k \in 1..left : CharMatches(item, Char(text, pos + k)) THEN left
        ELSE (CHOOSE k \in 1..left :
                /\ ~CharMatches(item, Char(text, pos + k))
                /\ \A j \in 1..(k - 1) : CharMatches(item, Char(text, pos + j))) - 1

RECURSIVE re_match(_, _, _, _)
RECURSIVE re_step(_, _, _, _, _)
RECURSIVE re_branch(_, _, _, _, _, _)
RECURSIVE re_repeat(_, _, _, _, _, _)

\* The backtracking matcher: todo is the items still to match from offset pos,
\* captured the groups closed so far.
re_match(todo, text, pos, captured) ==
    IF todo = <<>>
    THEN [matched |-> TRUE, end |-> pos, captured |-> captured]
    ELSE re_step(Head(todo), Tail(todo), text, pos, captured)

re_step(item, rest, text, pos, captured) ==
    CASE item.op = "literal" ->
            IF /\ pos + Len(item.text) <= Len(text)
               /\ LowerChar(Char(text, pos + 1)) = LowerChar(Char(item.text, 1))
               /\ str_lower(SubSeq(text, pos + 1, pos + Len(item.text)))
                    = str_lower(item.text)
            THEN re_match(rest, text, pos + Len(item.text), captured)
            ELSE NoMatch
      [] item.op \in {"any", "category"} ->
            IF pos < Len(text) /\ CharMatches(item, Char(text, pos + 1))
            THEN re_match(rest, text, pos + 1, captured)
            ELSE NoMatch
      [] item.op = "subpattern" ->
            re_match(item.items
                        \o <<[op |-> "mark", group |-> item.group, start |-> pos]>>
                        \o rest,
                     text, pos, captured)
      [] item.op = "mark" ->
            re_match(rest, text, pos,
                [captured EXCEPT ![item.group] = SubSeq(text, item.start + 1, pos)])
      [] item.op = "branch" ->
            re_branch(item.alternatives, 1, rest, text, pos, captured)
      [] item.op = "max_repeat" /\ item.unbounded ->
            re_repeat(rest, text, pos, captured, item.min,
                      run_length(item.item, text, pos))
      [] item.op = "max_repeat" /\ ~item.unbounded ->
            OrElse(re_match(<<item.item>> \o rest, text, pos, captured),
                   IF item.min = 0 THEN re_match(rest, text, pos, captured)
                   ELSE NoMatch)

\* the alternatives from the i-th on, in order: the first that lets the rest
\* match
re_branch(alternatives, i, rest, text, pos, captured) ==
    IF i > Len(alternatives) THEN NoMatch
    ELSE OrElse(re_match(alternatives[i] \o rest, text, pos, captured),
                re_branch(alternatives, i + 1, rest, text, pos, captured))

\* a greedy repeat of a one-character item that matches run characters in a
\* row: the longest repeat of at least min that lets the rest match
re_repeat(rest, text, pos, captured, min, run) ==
    LET counts == {n \in min..run : re_match(rest, text, pos + n, captured).matched}
        Longest(good) ==
            IF good = {} THEN NoMatch
            ELSE re_match(rest, text,
                          pos + (CHOOSE n \in good : \A m \in good : m <= n), captured)
    IN  Longest(counts)

\* re.findall from offset from on: leftmost matches, none overlapping; a
\* match is reported as its text, or its group, or the tuple of its groups
RECURSIVE re_findall_from(_, _, _)
re_findall_from(pattern, text, from) ==
    LET unset == [g \in 1..pattern.groups |-> ""]
        At(s) == re_match(pattern.items, text, s, unset)
        Report(s, m) ==
            << IF pattern.groups = 0 THEN SubSeq(text, s + 1, m.end)
               ELSE IF pattern.groups = 1 THEN m.captured[1]
               ELSE m.captured >>
            \o re_findall_from(pattern, text, IF m.end > s THEN m.end ELSE s + 1)
        First(s) == Report(s, At(s))
        Leftmost(starts) ==
            IF starts = {} THEN <<>>
            ELSE First(CHOOSE x \in starts : \A y \in starts : x <= y)
    IN  Leftmost({s \in from..Len(text) : At(s).matched})

re_findall(pattern, text) == re_findall_from(pattern, text, 0)

----------------------------------------------------------------------------
(* The rubric store: the tables AdvancedKeywordEvaluator.__init__ builds *)

_initialize_enhanced_criteria ==
    0 :> [
        type |-> "python_experience",
        essential_keywords |-> <<
            [name |-> "experience",
             keywords |-> <<"python", "programming", "experience", "years", "worked">>],
            [name |-> "projects",
             keywords |-> <<"project", "application", "system", "built", "developed">>],
            [name |-> "technologies",
             keywords |-> <<"framework", "library", "tool", "technology", "stack">>] >>,
        bonus_keywords |-> <<
            [name |-> "specific_frameworks",
             keywords |-> <<"django", "flask", "fastapi", "pyramid", "tornado">>],
            [name |-> "libraries",
             keywords |-> <<"pandas", "numpy", "requests", "matplotlib", "scikit-learn">>],
            [name |-> "deployment",
             keywords |-> <<"aws", "docker", "kubernetes", "heroku", "azure">>],
            [name |-> "version_control",
             keywords |-> <<"git", "github", "version control", "repository">>] >>,
        negative_keywords |-> <<"never used", "don't know", "basic only", "just started">>,
        context_patterns |-> <<
            Pattern("(\\d+)\\s+years?\\s+(of\\s+)?python", 2,
                <<Group(1, <<Plus(Digit)>>), Plus(Space), Lit("year"), Opt(Lit("s")),
                Plus(Space), Opt(Group(2, <<Lit("of"), Plus(Space)>>)), Lit("python")>>),
            Pattern("built\\s+(a|an)\\s+\\w+\\s+(application|system)", 2,
                <<Lit("built"), Plus(Space), Group(1, <<Branch(<< <<Lit("a")>>, <<Lit("an")>>
                >>)>>), Plus(Space), Plus(Word), Plus(Space), Group(2, <<Branch(<<
                <<Lit("application")>>, <<Lit("system")>> >>)>>)>>),
            Pattern("used\\s+\\w+\\s+(framework|library)", 1,
                <<Lit("used"), Plus(Space), Plus(Word), Plus(Space), Group(1, <<Branch(<<
                <<Lit("framework")>>, <<Lit("library")>> >>)>>)>>),
            Pattern("deployed\\s+(to|on)\\s+\\w+", 1,
                <<Lit("deployed"), Plus(Space), Group(1, <<Branch(<< <<Lit("to")>>,
                <<Lit("on")>> >>)>>), Plus(Space), Plus(Word)>>) >>,
        length_expectations |-> [min_words |-> 30, optimal_words |-> 80, max_words |-> 180],
        scoring_weights |-> [essential |-> Dec(6, 10), bonus |-> Dec(3, 10), structure |-> Dec(1, 10)] ]
    @@ 1 :> [
        type |-> "python_fundamentals",
        essential_keywords |-> <<
            [name |-> "data_types",
             keywords |-> <<"list", "tuple", "difference", "mutable", "immutable">>],
            [name |-> "characteristics",
             keywords |-> <<"ordered", "indexed", "changeable", "modify", "elements">>],
            [name |-> "use_cases",
             keywords |-> <<"use", "when", "choose", "scenario", "situation">>] >>,
        bonus_keywords |-> <<
            [name |-> "technical_details",
             keywords |-> <<"memory", "performance", "iteration", "slicing", "indexing">>],
            [name |-> "examples",
             keywords |-> <<"example", "instance", "case", "situation", "scenario">>],
            [name |-> "methods",
             keywords |-> <<"append", "extend", "remove", "pop", "sort">>] >>,
        negative_keywords |-> <<"same thing", "no difference", "don't know">>,
        context_patterns |-> <<
            Pattern("list.*mutable.*tuple.*immutable", 0,
                <<Lit("list"), Star(AnyChar), Lit("mutable"), Star(AnyChar), Lit("tuple"),
                Star(AnyChar), Lit("immutable")>>),
            Pattern("tuple.*immutable.*list.*mutable", 0,
                <<Lit("tuple"), Star(AnyChar), Lit("immutable"), Star(AnyChar), Lit("list"),
                Star(AnyChar), Lit("mutable")>>),
            Pattern("use\\s+list\\s+when", 0,
                <<Lit("use"), Plus(Space), Lit("list"), Plus(Space), Lit("when")>>),
            Pattern("use\\s+tuple\\s+when", 0,
                <<Lit("use"), Plus(Space), Lit("tuple"), Plus(Space), Lit("when")>>) >>,
        length_expectations |-> [min_words |-> 25, optimal_words |-> 60, max_words |-> 120],
        scoring_weights |-> [essential |-> Dec(7, 10), bonus |-> Dec(2, 10), structure |-> Dec(1, 10)] ]
    @@ 2 :> [
        type |-> "python_error_handling",
        essential_keywords |-> <<
            [name |-> "exception_basics",
             keywords |-> <<"exception", "error", "try", "except", "handle">>],
            [name |-> "structure",
             keywords |-> <<"try block", "except block", "finally", "else", "raise">>],
            [name |-> "examples",
             keywords |-> <<"example", "code", "demonstrate", "show", "implement">>] >>,
        bonus_keywords |-> <<
            [name |-> "specific_exceptions",
             keywords |-> <<"valueerror", "typeerror", "indexerror", "keyerror", "filenotfounderror">>],
            [name |-> "best_practices",
             keywords |-> <<"specific", "generic", "logging", "graceful", "user friendly">>],
            [name |-> "advanced",
             keywords |-> <<"custom exception", "exception chaining", "traceback", "debugging">>] >>,
        negative_keywords |-> <<"avoid errors", "don't handle", "ignore exceptions">>,
        context_patterns |-> <<
            Pattern("try:\\s*.*\\s*except", 0,
                <<Lit("try:"), Star(Space), Star(AnyChar), Star(Space), Lit("except")>>),
            Pattern("except\\s+\\w+Error", 0,
                <<Lit("except"), Plus(Space), Plus(Word), Lit("Error")>>),
            Pattern("finally\\s+block", 0,
                <<Lit("finally"), Plus(Space), Lit("block")>>),
            Pattern("raise\\s+\\w+", 0,
                <<Lit("raise"), Plus(Space), Plus(Word)>>) >>,
        length_expectations |-> [min_words |-> 30, optimal_words |-> 70, max_words |-> 150],
        scoring_weights |-> [essential |-> Dec(6, 10), bonus |-> Dec(3, 10), structure |-> Dec(1, 10)] ]
    @@ 3 :> [
        type |-> "sql_joins",
        essential_keywords |-> <<
            [name |-> "join_types",
             keywords |-> <<"inner join", "left join", "right join", "outer join", "full outer">>],
            [name |-> "concepts",
             keywords |-> <<"table", "relationship", "match", "record", "row">>],
            [name |-> "explanation",
             keywords |-> <<"difference", "when", "use", "returns", "result">>] >>,
        bonus_keywords |-> <<
            [name |-> "technical_details",
             keywords |-> <<"foreign key", "primary key", "null", "cartesian product">>],
            [name |-> "examples",
             keywords |-> <<"example", "scenario", "case", "customers", "orders">>],
            [name |-> "performance",
             keywords |-> <<"performance", "index", "optimization", "efficiency">>] >>,
        negative_keywords |-> <<"all the same", "don't know difference", "confusing">>,
        context_patterns |-> <<
            Pattern("inner\\s+join.*returns.*matching", 0,
                <<Lit("inner"), Plus(Space), Lit("join"), Star(AnyChar), Lit("returns"),
                Star(AnyChar), Lit("matching")>>),
            Pattern("left\\s+join.*returns.*all.*left", 0,
                <<Lit("left"), Plus(Space), Lit("join"), Star(AnyChar), Lit("returns"),
                Star(AnyChar), Lit("all"), Star(AnyChar), Lit("left")>>),
            Pattern("right\\s+join.*returns.*all.*right", 0,
                <<Lit("right"), Plus(Space), Lit("join"), Star(AnyChar), Lit("returns"),
                Star(AnyChar), Lit("all"), Star(AnyChar), Lit("right")>>),
            Pattern("outer\\s+join.*returns.*all", 0,
                <<Lit("outer"), Plus(Space), Lit("join"), Star(AnyChar), Lit("returns"),
                Star(AnyChar), Lit("all")>>) >>,
        length_expectations |-> [min_words |-> 35, optimal_words |-> 80, max_words |-> 160],
        scoring_weights |-> [essential |-> Dec(7, 10), bonus |-> Dec(2, 10), structure |-> Dec(1, 10)] ]
    @@ 4 :> [
        type |-> "sql_performance",
        essential_keywords |-> <<
            [name |-> "optimization_techniques",
             keywords |-> <<"index", "query plan", "optimize", "performance", "slow">>],
            [name |-> "analysis",
             keywords |-> <<"explain", "analyze", "execution", "bottleneck", "identify">>],
            [name |-> "solutions",
             keywords |-> <<"improve", "faster", "efficient", "reduce", "time">>] >>,
        bonus_keywords |-> <<
            [name |-> "specific_techniques",
             keywords |-> <<"covering index", "composite index", "statistics", "partitioning">>],
            [name |-> "tools",
             keywords |-> <<"profiler", "execution plan", "query analyzer", "monitoring">>],
            [name |-> "advanced",
             keywords |-> <<"materialized view", "denormalization", "caching", "sharding">>] >>,
        negative_keywords |-> <<"can't optimize", "always fast", "don't check performance">>,
        context_patterns |-> <<
            Pattern("add.*index.*on", 0,
                <<Lit("add"), Star(AnyChar), Lit("index"), Star(AnyChar), Lit("on")>>),
            Pattern("explain.*plan", 0,
                <<Lit("explain"), Star(AnyChar), Lit("plan")>>),
            Pattern("rewrite.*query", 0,
                <<Lit("rewrite"), Star(AnyChar), Lit("query")>>),
            Pattern("avoid.*select.*\\*", 0,
                <<Lit("avoid"), Star(AnyChar), Lit("select"), Star(AnyChar), Lit("*")>>) >>,
        length_expectations |-> [min_words |-> 30, optimal_words |-> 70, max_words |-> 140],
        scoring_weights |-> [essential |-> Dec(6, 10), bonus |-> Dec(3, 10), structure |-> Dec(1, 10)] ]
    @@ 5 :> [
        type |-> "python_advanced",
        essential_keywords |-> <<
            [name |-> "decorator_basics",
             keywords |-> <<"decorator", "function", "wrapper", "modify", "behavior">>],
            [name |-> "syntax",
             keywords |-> <<"@", "symbol", "syntax", "above", "before">>],
            [name |-> "purpose",
             keywords |-> <<"use", "when", "why", "purpose", "benefit">>] >>,
        bonus_keywords |-> <<
            [name |-> "examples",
             keywords |-> <<"@property", "@staticmethod", "@classmethod", "@wraps">>],
            [name |-> "concepts",
             keywords |-> <<"closure", "first class", "higher order", "functional">>],
            [name |-> "use_cases",
             keywords |-> <<"logging", "timing", "authentication", "validation", "caching">>] >>,
        negative_keywords |-> <<"too complex", "never use", "don't understand">>,
        context_patterns |-> <<
            Pattern("@\\w+", 0,
                <<Lit("@"), Plus(Word)>>),
            Pattern("def\\s+\\w+\\(func\\)", 0,
                <<Lit("def"), Plus(Space), Plus(Word), Lit("(func)")>>),
            Pattern("wrapper.*function", 0,
                <<Lit("wrapper"), Star(AnyChar), Lit("function")>>),
            Pattern("return.*wrapper", 0,
                <<Lit("return"), Star(AnyChar), Lit("wrapper")>>) >>,
        length_expectations |-> [min_words |-> 25, optimal_words |-> 65, max_words |-> 130],
        scoring_weights |-> [essential |-> Dec(6, 10), bonus |-> Dec(3, 10), structure |-> Dec(1, 10)] ]
    @@ 6 :> [
        type |-> "python_advanced",
        essential_keywords |-> <<
            [name |-> "generator_basics",
             keywords |-> <<"generator", "yield", "function", "iterator", "difference">>],
            [name |-> "memory",
             keywords |-> <<"memory", "efficient", "lazy", "evaluation", "space">>],
            [name |-> "behavior",
             keywords |-> <<"one at a time", "iterate", "next", "value", "state">>] >>,
        bonus_keywords |-> <<
            [name |-> "syntax",
             keywords |-> <<"yield from", "generator expression", "comprehension">>],
            [name |-> "use_cases",
             keywords |-> <<"large data", "streaming", "pipeline", "processing">>],
            [name |-> "concepts",
             keywords |-> <<"coroutine", "send", "throw", "close", "protocol">>] >>,
        negative_keywords |-> <<"same as function", "don't see benefit", "complicated">>,
        context_patterns |-> <<
            Pattern("yield\\s+\\w+", 0,
                <<Lit("yield"), Plus(Space), Plus(Word)>>),
            Pattern("def\\s+\\w+.*yield", 0,
                <<Lit("def"), Plus(Space), Plus(Word), Star(AnyChar), Lit("yield")>>),
            Pattern("memory.*efficient", 0,
                <<Lit("memory"), Star(AnyChar), Lit("efficient")>>),
            Pattern("lazy.*evaluation", 0,
                <<Lit("lazy"), Star(AnyChar), Lit("evaluation")>>) >>,
        length_expectations |-> [min_words |-> 25, optimal_words |-> 60, max_words |-> 120],
        scoring_weights |-> [essential |-> Dec(7, 10), bonus |-> Dec(2, 10), structure |-> Dec(1, 10)] ]
    @@ 7 :> [
        type |-> "sql_security",
        essential_keywords |-> <<
            [name |-> "security_basics",
             keywords |-> <<"sql injection", "prevent", "attack", "security", "vulnerability">>],
            [name |-> "techniques",
             keywords |-> <<"parameterized", "prepared statement", "bind", "escape", "sanitize">>],
            [name |-> "best_practices",
             keywords |-> <<"validate", "input", "user data", "never", "concatenate">>] >>,
        bonus_keywords |-> <<
            [name |-> "specific_methods",
             keywords |-> <<"placeholder", "question mark", "named parameter">>],
            [name |-> "frameworks",
             keywords |-> <<"orm", "sqlalchemy", "django orm", "active record">>],
            [name |-> "validation",
             keywords |-> <<"whitelist", "type checking", "length limit", "regex">>] >>,
        negative_keywords |-> <<"not important", "never happens", "don't worry about">>,
        context_patterns |-> <<
            Pattern("parameterized.*query", 0,
                <<Lit("parameterized"), Star(AnyChar), Lit("query")>>),
            Pattern("prepared.*statement", 0,
                <<Lit("prepared"), Star(AnyChar), Lit("statement")>>),
            Pattern("never.*concatenate.*user.*input", 0,
                <<Lit("never"), Star(AnyChar), Lit("concatenate"), Star(AnyChar), Lit("user"),
                Star(AnyChar), Lit("input")>>),
            Pattern("validate.*input", 0,
                <<Lit("validate"), Star(AnyChar), Lit("input")>>) >>,
        length_expectations |-> [min_words |-> 30, optimal_words |-> 70, max_words |-> 140],
        scoring_weights |-> [essential |-> Dec(7, 10), bonus |-> Dec(2, 10), structure |-> Dec(1, 10)] ]
    @@ 8 :> [
        type |-> "python_libraries",
        essential_keywords |-> <<
            [name |-> "libraries",
             keywords |-> <<"pandas", "numpy", "requests", "library", "experience">>],
            [name |-> "usage",
             keywords |-> <<"use", "used", "work", "project", "implement">>],
            [name |-> "purpose",
             keywords |-> <<"data", "analysis", "processing", "http", "api">>] >>,
        bonus_keywords |-> <<
            [name |-> "specific_functions",
             keywords |-> <<"dataframe", "array", "get", "post", "json">>],
            [name |-> "advanced",
             keywords |-> <<"matplotlib", "seaborn", "scipy", "sklearn", "tensorflow">>],
            [name |-> "real_world",
             keywords |-> <<"production", "scale", "performance", "optimization">>] >>,
        negative_keywords |-> <<"never used", "only heard of", "too complex">>,
        context_patterns |-> <<
            Pattern("pandas.*dataframe", 0,
                <<Lit("pandas"), Star(AnyChar), Lit("dataframe")>>),
            Pattern("numpy.*array", 0,
                <<Lit("numpy"), Star(AnyChar), Lit("array")>>),
            Pattern("requests.*get|post", 0,
                <<Branch(<< <<Lit("requests"), Star(AnyChar), Lit("get")>>, <<Lit("post")>>
                >>)>>),
            Pattern("import\\s+\\w+", 0,
                <<Lit("import"), Plus(Space), Plus(Word)>>) >>,
        length_expectations |-> [min_words |-> 25, optimal_words |-> 65, max_words |-> 130],
        scoring_weights |-> [essential |-> Dec(6, 10), bonus |-> Dec(3, 10), structure |-> Dec(1, 10)] ]
    @@ 9 :> [
        type |-> "database_design",
        essential_keywords |-> <<
            [name |-> "design_basics",
             keywords |-> <<"schema", "design", "database", "table", "relationship">>],
            [name |-> "ecommerce",
             keywords |-> <<"user", "product", "order", "customer", "inventory">>],
            [name |-> "structure",
             keywords |-> <<"primary key", "foreign key", "normalize", "entity">>] >>,
        bonus_keywords |-> <<
            [name |-> "advanced_design",
             keywords |-> <<"normalization", "denormalization", "index", "constraint">>],
            [name |-> "ecommerce_specific",
             keywords |-> <<"cart", "payment", "shipping", "category", "review">>],
            [name |-> "performance",
             keywords |-> <<"partitioning", "sharding", "replication", "scaling">>] >>,
        negative_keywords |-> <<"one big table", "don't need relationships", "simple is better">>,
        context_patterns |-> <<
            Pattern("users?.*table", 0,
                <<Lit("user"), Opt(Lit("s")), Star(AnyChar), Lit("table")>>),
            Pattern("products?.*table", 0,
                <<Lit("product"), Opt(Lit("s")), Star(AnyChar), Lit("table")>>),
            Pattern("orders?.*table", 0,
                <<Lit("order"), Opt(Lit("s")), Star(AnyChar), Lit("table")>>),
            Pattern("one.*to.*many|many.*to.*one", 0,
                <<Branch(<< <<Lit("one"), Star(AnyChar), Lit("to"), Star(AnyChar),
                Lit("many")>>, <<Lit("many"), Star(AnyChar), Lit("to"), Star(AnyChar),
                Lit("one")>> >>)>>) >>,
        length_expectations |-> [min_words |-> 35, optimal_words |-> 80, max_words |-> 160],
        scoring_weights |-> [essential |-> Dec(6, 10), bonus |-> Dec(3, 10), structure |-> Dec(1, 10)] ]

_initialize_semantic_groups == <<
    [name |-> "python_concepts",
     words |-> <<"object oriented", "functional", "procedural", "interpreted", "dynamic typing", "duck typing", "pythonic", "pep8">>],
    [name |-> "python_data_structures",
     words |-> <<"dictionary", "set", "frozenset", "deque", "counter", "defaultdict", "namedtuple", "dataclass">>],
    [name |-> "sql_operations",
     words |-> <<"select", "insert", "update", "delete", "create", "drop", "alter", "grant", "revoke", "commit", "rollback">>],
    [name |-> "database_concepts",
     words |-> <<"acid", "transaction", "isolation", "consistency", "durability", "atomicity", "concurrency", "locking", "deadlock">>],
    [name |-> "python_libraries",
     words |-> <<"django", "flask", "requests", "pandas", "numpy", "matplotlib", "seaborn", "sqlalchemy", "pytest", "unittest">>],
    [name |-> "sql_functions",
     words |-> <<"count", "sum", "avg", "max", "min", "group by", "order by", "having", "distinct", "union", "intersect", "except">>],
    [name |-> "performance_terms",
     words |-> <<"optimization", "indexing", "caching", "profiling", "benchmarking", "bottleneck", "scalability", "efficiency", "throughput">>],
    [name |-> "achievement_words",
     words |-> <<"achieved", "accomplished", "completed", "delivered", "exceeded", "improved", "increased", "reduced", "optimized", "enhanced">>],
    [name |-> "leadership_words",
     words |-> <<"led", "managed", "coordinated", "organized", "supervised", "guided", "mentored", "facilitated", "directed", "oversaw">>],
    [name |-> "collaboration_words",
     words |-> <<"collaborated", "cooperated", "partnered", "worked together", "team effort", "coordinated", "supported", "contributed">>],
    [name |-> "problem_solving_words",
     words |-> <<"solved", "resolved", "addressed", "tackled", "overcame", "analyzed", "identified", "implemented", "developed">>],
    [name |-> "communication_words",
     words |-> <<"communicated", "presented", "explained", "discussed", "negotiated", "persuaded", "clarified", "documented">>] >>

_initialize_synonyms ==
    "experience" :> <<"background", "history", "track record", "expertise">>
    @@ "skills" :> <<"abilities", "capabilities", "competencies", "expertise">>
    @@ "improve" :> <<"enhance", "develop", "better", "upgrade", "advance">>
    @@ "implement" :> <<"code", "develop", "build", "create", "program">>
    @@ "function" :> <<"method", "procedure", "subroutine", "callable", "def">>
    @@ "variable" :> <<"identifier", "name", "reference", "symbol">>
    @@ "framework" :> <<"library", "toolkit", "package", "module">>
    @@ "list" :> <<"array", "sequence", "collection">>
    @@ "dictionary" :> <<"dict", "hash", "map", "associative array">>
    @@ "database" :> <<"db", "data store", "repository", "warehouse">>
    @@ "query" :> <<"statement", "command", "sql", "request">>
    @@ "table" :> <<"relation", "entity", "dataset", "collection">>
    @@ "record" :> <<"row", "tuple", "entry", "item">>
    @@ "field" :> <<"column", "attribute", "property", "element">>
    @@ "join" :> <<"link", "connect", "merge", "combine">>
    @@ "optimize" :> <<"improve", "enhance", "tune", "refactor", "speed up">>
    @@ "slow" :> <<"sluggish", "poor performance", "bottleneck", "inefficient">>
    @@ "fast" :> <<"quick", "efficient", "optimized", "performant">>
    @@ "bug" :> <<"error", "issue", "defect", "problem">>
    @@ "fix" :> <<"resolve", "solve", "correct", "repair">>
    @@ "test" :> <<"validate", "verify", "check", "examine">>

----------------------------------------------------------------------------
(* AdvancedKeywordEvaluator: the matcher *)

\* [F(seq[1]), ..., F(seq[n])]
SeqMap(F(_), seq) == <<>> \o [i \in 1..Len(seq) |-> F(seq[i])]

\* F(seq[1]) \o ... \o F(seq[n]) for sequence-valued F
RECURSIVE SeqFlatMap(_, _)
SeqFlatMap(F(_), seq) ==
    IF seq = <<>> THEN <<>> ELSE F(Head(seq)) \o SeqFlatMap(F, Tail(seq))

\* dict.get(key, []) / dict.get(key) on a matches dictionary
Get(matches, group_name) ==
    IF group_name \in DOMAIN matches THEN matches[group_name] ELSE <<>>

\* A defaultdict(list) after the matcher's loops: a key exists for exactly
\* the groups something was appended under.
Appended(keyword_groups, Hits(_)) ==
    LET Keyed(lists, hit) ==
            [g \in {keyword_groups[i].name : i \in hit} |->
                lists[CHOOSE i \in hit : keyword_groups[i].name = g]]
        Kept(lists) == Keyed(lists, {i \in 1..Len(lists) : lists[i] # <<>>})
    IN  Kept(SeqMap(Hits, keyword_groups))

\* _clean_text: lower, collapse whitespace and trim, then the contractions
_clean_text(text) ==
    LET t0 == str_lower(text)
        t1 == str_strip(re_sub_spaces(t0))
        t2 == re_sub_literal("won't", "will not", t1)
        t3 == re_sub_literal("can't", "cannot", t2)
        t4 == re_sub_literal("n't", " not", t3)
        t5 == re_sub_literal("'re", " are", t4)
        t6 == re_sub_literal("'ve", " have", t5)
        t7 == re_sub_literal("'ll", " will", t6)
    IN  re_sub_literal("'d", " would", t7)

\* the keyword counted as present when the text holds it exactly once
_is_keyword_present_once(text, keyword) ==
    Cardinality({i \in 0..(Len(text) - Len(keyword)) :
                    SubSeq(text, i + 1, i + Len(keyword)) = keyword}) = 1

\* _is_keyword_present: substring first, else the word-bounded search
_is_keyword_present(text, keyword) ==
    IF StrIn(keyword, text) THEN TRUE
    ELSE IF StrIn(" ", keyword) THEN re_search_bounded(keyword, text)
    ELSE re_search_bounded(keyword, text)

_find_exact_matches(text, criteria) ==
    LET Hits(group) ==
            SelectSeq(group.keywords, LAMBDA kw : _is_keyword_present(text, kw))
    IN  [essential |-> Appended(criteria.essential_keywords, Hits),
         bonus |-> Appended(criteria.bonus_keywords, Hits)]

\* the semantic matcher crediting the words of every family to every group
_find_semantic_matches_any_family(text, criteria) ==
    LET Tag(word) == word \o " (semantic)"
        Hits(group) ==
            LET Family(fam) ==
                    SeqMap(Tag, SelectSeq(fam.words,
                                    LAMBDA w : _is_keyword_present(text, w)))
            IN  SeqFlatMap(Family, semantic_groups)
    IN  [essential |-> Appended(criteria.essential_keywords, Hits),
         bonus |-> Appended(criteria.bonus_keywords, Hits)]

_find_semantic_matches(text, criteria) ==
    LET Tag(word) == word \o " (semantic)"
        Hits(group) ==
            LET Family(fam) ==
                    IF \E i \in 1..Len(group.keywords) :
                          \/ StrIn(group.keywords[i], fam.name)
                          \/ StrIn(fam.name, group.keywords[i])
                    THEN SeqMap(Tag, SelectSeq(fam.words,
                                    LAMBDA w : _is_keyword_present(text, w)))
                    ELSE <<>>
            IN  SeqFlatMap(Family, semantic_groups)
    IN  [essential |-> Appended(criteria.essential_keywords, Hits),
         bonus |-> Appended(criteria.bonus_keywords, Hits)]

_find_synonym_matches(text, criteria) ==
    LET Hits(group) ==
            LET OfKeyword(kw) ==
                    IF kw \in DOMAIN synonyms
                    THEN LET Tag(syn) == syn \o " (synonym for " \o kw \o ")"
                         IN  SeqMap(Tag, SelectSeq(synonyms[kw],
                                    LAMBDA syn : _is_keyword_present(text, syn)))
                    ELSE <<>>
            IN  SeqFlatMap(OfKeyword, group.keywords)
    IN  [essential |-> Appended(criteria.essential_keywords, Hits),
         bonus |-> Appended(criteria.bonus_keywords, Hits)]

_find_pattern_matches(text, criteria) ==
    IF "context_patterns" \in DOMAIN criteria
    THEN LET Found(pattern) == re_findall(pattern, text)
         IN  SeqFlatMap(Found, criteria.context_patterns)
    ELSE <<>>

----------------------------------------------------------------------------
(* AdvancedKeywordEvaluator: the scorer *)

\* the category score counting matched keywords, not covered groups: each
\* group credited with the share of its keywords that matched exactly
_calculate_category_score_per_keyword(exact_matches, semantic_matches, keyword_groups) ==
    LET total_groups == Len(keyword_groups)
        Credit(group) == Dec(Len(Get(exact_matches, group.name)), Len(group.keywords))
        RECURSIVE Covered(_)
        Covered(n) == IF n = 0 THEN Whole(0)
                      ELSE RAdd(Covered(n - 1), Credit(keyword_groups[n]))
    IN  IF total_groups = 0 THEN Whole(1)
        ELSE RMul(Covered(total_groups), Dec(1, total_groups))

\* the category score with 0.0, not 1.0, for a category without groups
_calculate_category_score_empty_zero(exact_matches, semantic_matches, keyword_groups) ==
    LET total_groups == Len(keyword_groups)
        Credit(group) ==
            IF Len(Get(exact_matches, group.name)) > 0 THEN Dec(10, 10)
            ELSE IF Len(Get(semantic_matches, group.name)) > 0 THEN Dec(7, 10)
            ELSE Whole(0)
        RECURSIVE Covered(_)
        Covered(n) == IF n = 0 THEN Whole(0)
                      ELSE RAdd(Covered(n - 1), Credit(keyword_groups[n]))
    IN  IF total_groups = 0 THEN Whole(0)
        ELSE RMul(Covered(total_groups), Dec(1, total_groups))

\* the category score with full credit for a group with a semantic match
_calculate_category_score_semantic_full(exact_matches, semantic_matches, keyword_groups) ==
    LET total_groups == Len(keyword_groups)
        Credit(group) ==
            IF Len(Get(exact_matches, group.name)) > 0 THEN Dec(10, 10)
            ELSE IF Len(Get(semantic_matches, group.name)) > 0 THEN Dec(10, 10)
            ELSE Whole(0)
        RECURSIVE Covered(_)
        Covered(n) == IF n = 0 THEN Whole(0)
                      ELSE RAdd(Covered(n - 1), Credit(keyword_groups[n]))
    IN  IF total_groups = 0 THEN Whole(1)
        ELSE RMul(Covered(total_groups), Dec(1, total_groups))

\* _calculate_category_score: 1.0 per group with an exact match, else 0.7 per
\* group with a semantic match, over the number of groups
_calculate_category_score(exact_matches, semantic_matches, keyword_groups) ==
    LET total_groups == Len(keyword_groups)
        Credit(group) ==
            IF Len(Get(exact_matches, group.name)) > 0 THEN Dec(10, 10)
            ELSE IF Len(Get(semantic_matches, group.name)) > 0 THEN Dec(7, 10)
            ELSE Whole(0)
        RECURSIVE Covered(_)
        Covered(n) == IF n = 0 THEN Whole(0)
                      ELSE RAdd(Covered(n - 1), Credit(keyword_groups[n]))
    IN  IF total_groups = 0 THEN Whole(1)
        ELSE RMul(Covered(total_groups), Dec(1, total_groups))

structure_indicators ==
    << "for example", "for instance", "such as", "specifically",
       "first", "second", "then", "next", "finally", "in conclusion",
       "as a result", "therefore", "consequently", "however" >>

\* the length curve with a flat 0.5 for every answer under min_words
length_score_flat(word_count, length_expectations) ==
    LET min_words == length_expectations.min_words
        optimal_words == length_expectations.optimal_words
        max_words == length_expectations.max_words
    IN  IF word_count < min_words
        THEN Dec(5, 10)
        ELSE IF word_count <= optimal_words
        THEN RAdd(Dec(5, 10), RMul(Dec(word_count - min_words,
                                       optimal_words - min_words), Dec(5, 10)))
        ELSE IF word_count <= max_words
        THEN RSub(Whole(1), RMul(Dec(word_count - optimal_words,
                                     max_words - optimal_words), Dec(2, 10)))
        ELSE RSub(Dec(8, 10), RMin(Dec(word_count - max_words, 50), Dec(3, 10)))

\* the length curve with no cap on the deduction for an answer over max_words
length_score_uncapped(word_count, length_expectations) ==
    LET min_words == length_expectations.min_words
        optimal_words == length_expectations.optimal_words
        max_words == length_expectations.max_words
    IN  IF word_count < min_words
        THEN RMul(Dec(word_count, min_words), Dec(5, 10))
        ELSE IF word_count <= optimal_words
        THEN RAdd(Dec(5, 10), RMul(Dec(word_count - min_words,
                                       optimal_words - min_words), Dec(5, 10)))
        ELSE IF word_count <= max_words
        THEN RSub(Whole(1), RMul(Dec(word_count - optimal_words,
                                     max_words - optimal_words), Dec(2, 10)))
        ELSE RSub(Dec(8, 10), Dec(word_count - max_words, 50))

\* the length curve of _analyze_structure
length_score(word_count, length_expectations) ==
    LET min_words == length_expectations.min_words
        optimal_words == length_expectations.optimal_words
        max_words == length_expectations.max_words
    IN  IF word_count < min_words
        THEN RMul(Dec(word_count, min_words), Dec(5, 10))
        ELSE IF word_count <= optimal_words
        THEN RAdd(Dec(5, 10), RMul(Dec(word_count - min_words,
                                       optimal_words - min_words), Dec(5, 10)))
        ELSE IF word_count <= max_words
        THEN RSub(Whole(1), RMul(Dec(word_count - optimal_words,
                                     max_words - optimal_words), Dec(2, 10)))
        ELSE RSub(Dec(8, 10), RMin(Dec(word_count - max_words, 50), Dec(3, 10)))

\* the structure score without the indicator bonus
_analyze_structure_length_only(text, criteria) ==
    RMin(Whole(1), length_score(str_split_len(text), criteria.length_expectations))

\* the structure score with 0.1 for every indicator, the bonus not capped
_analyze_structure_uncapped_bonus(text, criteria) ==
    LET Indicators(text_lower) ==
            Len(SelectSeq(structure_indicators,
                          LAMBDA indicator : StrIn(indicator, text_lower)))
    IN  RMin(Whole(1), RAdd(length_score(str_split_len(text), criteria.length_expectations),
                            Dec(Indicators(str_lower(text)), 10)))

\* _analyze_structure: length curve plus 0.1 per indicator, bonus capped at
\* 0.3, the sum capped at 1.0
_analyze_structure(text, criteria) ==
    LET word_count == str_split_len(text)
        Indicators(text_lower) ==
            Len(SelectSeq(structure_indicators,
                          LAMBDA indicator : StrIn(indicator, text_lower)))
        structure_bonus == RMin(Dec(Indicators(str_lower(text)), 10), Dec(3, 10))
    IN  RMin(Whole(1), RAdd(length_score(word_count, criteria.length_expectations),
                            structure_bonus))

\* _calculate_negative_penalty: 1.0 per negative phrase present
_calculate_negative_penalty(text, criteria) ==
    LET negative_keywords ==
            IF "negative_keywords" \in DOMAIN criteria
            THEN criteria.negative_keywords ELSE <<>>
    IN  Len(SelectSeq(negative_keywords,
                      LAMBDA neg_keyword : _is_keyword_present(text, neg_keyword)))

\* the coverage counting the groups with an exact match only
_analyze_coverage_exact_only(exact_matches, semantic_matches, criteria) ==
    LET total_essential_groups == Len(criteria.essential_keywords)
        total_bonus_groups == Len(criteria.bonus_keywords)
        essential_covered ==
            Len(SelectSeq(criteria.essential_keywords,
                          LAMBDA g : Get(exact_matches.essential, g.name) # <<>>))
        bonus_covered ==
            Len(SelectSeq(criteria.bonus_keywords,
                          LAMBDA g : Get(exact_matches.bonus, g.name) # <<>>))
    IN  [essential_coverage |->
            IF total_essential_groups > 0
            THEN Round(Dec(essential_covered * 100, total_essential_groups), 10)
            ELSE 1000,
         bonus_coverage |->
            IF total_bonus_groups > 0
            THEN Round(Dec(bonus_covered * 100, total_bonus_groups), 10)
            ELSE 1000,
         essential_groups_covered |->
            ToString(essential_covered) \o "/" \o ToString(total_essential_groups),
         bonus_groups_covered |->
            ToString(bonus_covered) \o "/" \o ToString(total_bonus_groups)]

\* _analyze_coverage; the percentages in tenths of a percent
_analyze_coverage(exact_matches, semantic_matches, criteria) ==
    LET total_essential_groups == Len(criteria.essential_keywords)
        total_bonus_groups == Len(criteria.bonus_keywords)
        Analysis(essential_covered, bonus_covered) ==
           [essential_coverage |->
            IF total_essential_groups > 0
            THEN Round(Dec(essential_covered * 100, total_essential_groups), 10)
            ELSE 1000,
         bonus_coverage |->
            IF total_bonus_groups > 0
            THEN Round(Dec(bonus_covered * 100, total_bonus_groups), 10)
            ELSE 1000,
         essential_groups_covered |->
            ToString(essential_covered) \o "/" \o ToString(total_essential_groups),
         bonus_groups_covered |->
            ToString(bonus_covered) \o "/" \o ToString(total_bonus_groups)]
    IN  Analysis(
            Len(SelectSeq(criteria.essential_keywords, LAMBDA g :
                    \/ Get(exact_matches.essential, g.name) # <<>>
                    \/ Get(semantic_matches.essential, g.name) # <<>>)),
            Len(SelectSeq(criteria.bonus_keywords, LAMBDA g :
                    \/ Get(exact_matches.bonus, g.name) # <<>>
                    \/ Get(semantic_matches.bonus, g.name) # <<>>)))

\* the suggestions listing every keyword of a group, not the first three
_generate_suggestions_all_keywords(exact_matches, criteria) ==
    LET Suggest(group) ==
            IF Get(exact_matches.essential, group.name) = <<>>
            THEN << "Consider mentioning " \o str_replace_char(group.name, "_", " ")
                    \o ": " \o str_join(", ", group.keywords) >>
            ELSE <<>>
    IN  Take(SeqFlatMap(Suggest, criteria.essential_keywords), 3)

\* _generate_suggestions: one per essential group without an exact match,
\* the first three kept
_generate_suggestions(exact_matches, criteria) ==
    LET Suggest(group) ==
            IF Get(exact_matches.essential, group.name) = <<>>
            THEN << "Consider mentioning " \o str_replace_char(group.name, "_", " ")
                    \o ": " \o str_join(", ", Take(group.keywords, 3)) >>
            ELSE <<>>
        star == IF criteria.type = "behavioral_STAR"
                THEN << "Use the STAR method: Situation, Task, Action, Result" >>
                ELSE <<>>
    IN  Take(SeqFlatMap(Suggest, criteria.essential_keywords) \o star, 3)

\* the weighted sum with the essential and the bonus weight exchanged
weighted_score_swapped(essential_score, bonus_score, structure_score, weights) ==
    RMul(RAdd(RAdd(RMul(essential_score, weights.bonus),
                   RMul(bonus_score, weights.essential)),
              RMul(structure_score, weights.structure)),
         Whole(10))

\* the weighted sum of evaluate_keywords_advanced, scaled to 0-10
weighted_score(essential_score, bonus_score, structure_score, weights) ==
    RMul(RAdd(RAdd(RMul(essential_score, weights.essential),
                   RMul(bonus_score, weights.bonus)),
              RMul(structure_score, weights.structure)),
         Whole(10))

\* the penalty subtracted with no max(0, ...) around it
apply_penalty_unclamped(final_score, negative_penalty) ==
    RSub(final_score, Whole(negative_penalty))

\* final_score = max(0, final_score - negative_penalty)
apply_penalty(final_score, negative_penalty) ==
    RMax(Whole(0), RSub(final_score, Whole(negative_penalty)))

\* round(min(10, final_score), 1), in tenths
keyword_score(final_score) == Round(RMin(Whole(10), final_score), 10)

\* evaluate_keywords_advanced, lines 390-397: the cleaned text and the four
\* matching strategies
find_matches(text, criteria) ==
    LET Matched(transcript_clean) ==
           [transcript_clean |-> transcript_clean,
            exact_matches |-> _find_exact_matches(transcript_clean, criteria),
            semantic_matches |-> _find_semantic_matches(transcript_clean, criteria),
            pattern_matches |-> _find_pattern_matches(text, criteria),
            synonym_matches |-> _find_synonym_matches(transcript_clean, criteria)]
    IN  Matched(_clean_text(text))

\* the scoring with half a point added for every essential group that has
\* synonym evidence
score_matches_synonym_credit(text, criteria, found) ==
    LET Scored(essential_score, bonus_score, structure_score, negative_penalty) ==
           [essential_score |-> essential_score,
            bonus_score |-> bonus_score,
            structure_score |-> structure_score,
            negative_penalty |-> negative_penalty,
            final_score |->
                RAdd(apply_penalty(weighted_score(essential_score, bonus_score,
                                       structure_score, criteria.scoring_weights),
                                   negative_penalty),
                     Dec(Cardinality(DOMAIN found.synonym_matches.essential), 2))]
    IN  Scored(_calculate_category_score(found.exact_matches.essential,
                   found.semantic_matches.essential, criteria.essential_keywords),
               _calculate_category_score(found.exact_matches.bonus,
                   found.semantic_matches.bonus, criteria.bonus_keywords),
               _analyze_structure(text, criteria),
               _calculate_negative_penalty(found.transcript_clean, criteria))

\* evaluate_keywords_advanced, lines 399-423: the three sub-scores, their
\* weighted sum and the penalty
score_matches(text, criteria, found) ==
    LET Scored(essential_score, bonus_score, structure_score, negative_penalty) ==
           [essential_score |-> essential_score,
            bonus_score |-> bonus_score,
            structure_score |-> structure_score,
            negative_penalty |-> negative_penalty,
            final_score |->
                apply_penalty(weighted_score(essential_score, bonus_score,
                                  structure_score, criteria.scoring_weights),
                              negative_penalty)]
    IN  Scored(_calculate_category_score(found.exact_matches.essential,
                   found.semantic_matches.essential, criteria.essential_keywords),
               _calculate_category_score(found.exact_matches.bonus,
                   found.semantic_matches.bonus, criteria.bonus_keywords),
               _analyze_structure(text, criteria),
               _calculate_negative_penalty(found.transcript_clean, criteria))

\* evaluate_keywords_advanced, lines 425-441: the dictionary returned
build_result(criteria, found, scored) ==
    [keyword_score |-> keyword_score(scored.final_score),
     detailed_breakdown |->
        [essential_score |-> Round(scored.essential_score, 100),
         bonus_score |-> Round(scored.bonus_score, 100),
         structure_score |-> Round(scored.structure_score, 100),
         negative_penalty |-> scored.negative_penalty],
     matches_found |->
        [exact |-> found.exact_matches, semantic |-> found.semantic_matches,
         patterns |-> found.pattern_matches, synonyms |-> found.synonym_matches],
     coverage_analysis |->
        _analyze_coverage(found.exact_matches, found.semantic_matches, criteria),
     improvement_suggestions |->
        _generate_suggestions(found.exact_matches, criteria)]

question_not_found == [keyword_score |-> 0, details |-> "Question not found"]

\* evaluate_keywords_advanced, run from its first line to its return
evaluate_keywords_advanced(text, index) ==
    IF index \notin DOMAIN question_criteria THEN question_not_found
    ELSE LET Result(criteria, found) ==
                 build_result(criteria, found, score_matches(text, criteria, found))
             Run(criteria) == Result(criteria, find_matches(text, criteria))
         IN  Run(question_criteria[index])

Returned(value) == [outcome |-> "returned", value |-> value]
Raised(exception) == [outcome |-> "raised", exception |-> exception]

\* evaluate_single_answer: reads coverage_analysis, detailed_breakdown and
\* improvement_suggestions of the keyword result, and raises KeyError when
\* the result has no such key
evaluate_single_answer(index, question_text, text) ==
    LET question_type == IF index \in DOMAIN question_criteria
                         THEN question_criteria[index].type ELSE "general"
        Evaluation(keyword_results) ==
            IF "coverage_analysis" \notin DOMAIN keyword_results
            THEN Raised("KeyError: 'coverage_analysis'")
            ELSE Returned(
                   [question_index |-> index,
                    question_type |-> question_type,
                    combined_score |-> keyword_results.keyword_score,
                    keyword_evaluation |-> keyword_results,
                    score_breakdown |->
                        [keyword_score |-> keyword_results.keyword_score,
                         scoring_method |-> "Advanced Keyword Matching",
                         components |-> keyword_results.detailed_breakdown],
                    coverage_analysis |-> keyword_results.coverage_analysis,
                    improvement_suggestions |->
                        keyword_results.improvement_suggestions])
    IN  Evaluation(evaluate_keywords_advanced(text, index))

----------------------------------------------------------------------------
(* AdvancedKeywordEvaluator: the session aggregator *)

\* question_data["answer_evaluation"] = evaluation
SetKey(dictionary, key, value) ==
    [k \in DOMAIN dictionary \cup {key} |-> IF k = key THEN value ELSE dictionary[k]]

\* the skip test without strip(): only the empty string is skipped
is_blank_no_strip(text) == text = ""

\* transcript.strip() is empty: the item is skipped
is_blank(text) == str_strip(text) = ""

\* The loop of evaluate_full_interview over the first n items of the list:
\* the list as the loop leaves it, the scores collected, and the exception
\* that ended the loop, if one did.
RECURSIVE interview_loop(_, _)
interview_loop(items, n) ==
    IF n = 0 THEN [items |-> items, all_scores |-> <<>>, exception |-> ""]
    ELSE
    LET Recorded(before, evaluation) ==
            IF evaluation.outcome = "raised"
            THEN [before EXCEPT !.exception = evaluation.exception]
            ELSE [items |-> [before.items EXCEPT
                        ![n] = SetKey(@, "answer_evaluation", evaluation.value)],
                  all_scores |->
                     Append(before.all_scores, evaluation.value.combined_score),
                  exception |-> ""]
        Item(before, question_data) ==
            IF before.exception # "" THEN before
            ELSE IF is_blank(question_data.transcript) THEN before
            ELSE Recorded(before,
                    evaluate_single_answer(question_data.question_number - 1,
                        question_data.question_text, question_data.transcript))
        After(before) == Item(before, before.items[n])
    IN  After(interview_loop(items, n - 1))

RECURSIVE SeqSum(_)
SeqSum(seq) == IF seq = <<>> THEN 0 ELSE Head(seq) + SeqSum(Tail(seq))

SeqMax(seq) == CHOOSE x \in {seq[i] : i \in 1..Len(seq)} :
                    \A i \in 1..Len(seq) : seq[i] <= x
SeqMin(seq) == CHOOSE x \in {seq[i] : i \in 1..Len(seq)} :
                    \A i \in 1..Len(seq) : x <= seq[i]
Count(seq, Test(_)) == Len(SelectSeq(seq, Test))

\* the summary with questions_above_7 counting scores over 7.0 only
content_analysis_summary_strict(all_scores) ==
    [average_content_score |->
        Round(Dec(SeqSum(all_scores), 10 * Len(all_scores)), 10),
     highest_score |-> SeqMax(all_scores),
     lowest_score |-> SeqMin(all_scores),
     total_questions_evaluated |-> Len(all_scores),
     questions_above_7 |-> Count(all_scores, LAMBDA score : score > 70),
     questions_below_5 |-> Count(all_scores, LAMBDA score : score < 50),
     score_distribution |->
        [excellent |-> Count(all_scores, LAMBDA score : score >= 80),
         good |-> Count(all_scores, LAMBDA score : 60 <= score /\ score < 80),
         fair |-> Count(all_scores, LAMBDA score : 40 <= score /\ score < 60),
         poor |-> Count(all_scores, LAMBDA score : score < 40)],
     evaluation_method |-> "Advanced Keyword Matching with Semantic Analysis"]

\* content_analysis_summary over scores held in tenths
content_analysis_summary(all_scores) ==
    [average_content_score |->
        Round(Dec(SeqSum(all_scores), 10 * Len(all_scores)), 10),
     highest_score |-> SeqMax(all_scores),
     lowest_score |-> SeqMin(all_scores),
     total_questions_evaluated |-> Len(all_scores),
     questions_above_7 |-> Count(all_scores, LAMBDA score : score >= 70),
     questions_below_5 |-> Count(all_scores, LAMBDA score : score < 50),
     score_distribution |->
        [excellent |-> Count(all_scores, LAMBDA score : score >= 80),
         good |-> Count(all_scores, LAMBDA score : 60 <= score /\ score < 80),
         fair |-> Count(all_scores, LAMBDA score : 40 <= score /\ score < 60),
         poor |-> Count(all_scores, LAMBDA score : score < 40)],
     evaluation_method |-> "Advanced Keyword Matching with Semantic Analysis"]


----------------------------------------------------------------------------
(* ReportGenerator: the content metrics of the text report *)

\* the first key that the report's loop reads from an answer_evaluation and
\* the evaluation does not have; "" when it has them all
missing_key(answer_evaluation) ==
    IF "combined_score" \notin DOMAIN answer_evaluation THEN "combined_score"
    ELSE IF "keyword_evaluation" \notin DOMAIN answer_evaluation
    THEN "keyword_evaluation"
    ELSE IF "coverage_percentage" \notin DOMAIN answer_evaluation.keyword_evaluation
    THEN "coverage_percentage"
    ELSE IF "score_breakdown" \notin DOMAIN answer_evaluation
    THEN "score_breakdown"
    ELSE IF "llm_average" \notin DOMAIN answer_evaluation.score_breakdown
    THEN "llm_average"
    ELSE ""

\* _generate_text_report, lines 42-51: for each item with an
\* answer_evaluation, its combined_score, keyword_evaluation
\* ['coverage_percentage'] and score_breakdown['llm_average'] are collected;
\* a key that is not there raises KeyError and no report is written.  (Lines
\* 30-40 read speech_analysis and confidence_evaluation, which every recorded
\* item has and the items here leave out.)
_generate_text_report(questions) ==
    LET evaluated == SelectSeq(questions, LAMBDA q : "answer_evaluation" \in DOMAIN q)
        failing == SelectSeq(evaluated, LAMBDA q : missing_key(q.answer_evaluation) # "")
        Score(q) == q.answer_evaluation.combined_score
        Coverage(q) == q.answer_evaluation.keyword_evaluation.coverage_percentage
        Llm(q) == q.answer_evaluation.score_breakdown.llm_average
    IN  IF failing # <<>>
        THEN Raised("KeyError: '" \o missing_key(failing[1].answer_evaluation) \o "'")
        ELSE Returned([content_scores |-> SeqMap(Score, evaluated),
                       keyword_coverages |-> SeqMap(Coverage, evaluated),
                       llm_scores |-> SeqMap(Llm, evaluated)])
----------------------------------------------------------------------------
(* The inputs the model runs the evaluator on *)

\* n words "and", each followed by a space
RECURSIVE Filler(_)
Filler(n) == IF n = 0 THEN ""
             ELSE IF n = 1 THEN "and "
             ELSE Filler(n \div 2) \o Filler(n - n \div 2)

\* the phrases generated transcripts are put together from
Phrases ==
    << "I don't know", "never used", "list,ordered,use", "For example, first",
       "same thing" >>

\* every sequence of at most n phrase numbers
RECURSIVE PhraseSeqs(_)
PhraseSeqs(n) ==
    IF n = 0 THEN {<<>>}
    ELSE PhraseSeqs(n - 1) \cup
         {Append(s, i) : s \in {x \in PhraseSeqs(n - 1) : Len(x) = n - 1},
                         i \in 1..Len(Phrases)}

GeneratedTranscripts ==
    {str_join(" ", [i \in 1..Len(s) |-> Phrases[s[i]]]) : s \in PhraseSeqs(MaxPhrases)}

SampleTranscripts ==
    { "", "  ", " \t\n",
      "Lists are mutable and tuples are immutable. You use a list when ordered, changeable data is needed, and a tuple when you want fixed data. For example, coordinates are often tuples.",
      Filler(54) \o "list ordered use memory example pop",
      "never used python, don't know, basic only, just started",
      "We CAN'T optimize it,   it's always fast",
      "python,project,tool",
      "a counter in a module",
      "counter,project,tool",
      "I have 5 years of Python. Built a web application, used Flask framework",
      "user data is validated, I'd never concatenate input; not important" }

Transcripts == GeneratedTranscripts \cup SampleTranscripts

\* the indexes of the rubric and the first index past it, which has no entry
QuestionIndexes ==
    DOMAIN _initialize_enhanced_criteria
        \cup {Cardinality(DOMAIN _initialize_enhanced_criteria)}

\* the answer_evaluation handle_silence_timeout stores for an unanswered
\* question
no_response_evaluation(index) ==
    [question_index |-> index,
     question_type |-> "behavioral",
     combined_score |-> 0,
     keyword_evaluation |->
        [keyword_score |-> 0,
         matches_found |->
            [exact |-> [essential |-> <<>>, bonus |-> <<>>],
             semantic |-> [essential |-> <<>>, bonus |-> <<>>]],
         coverage_analysis |-> [essential_coverage |-> 0, bonus_coverage |-> 0],
         improvement_suggestions |->
            << "No response provided - encourage candidate to answer" >>],
     score_breakdown |-> [keyword_score |-> 0, scoring_method |-> "No Response"]]

\* an answer as the session keeps it before the content evaluation
Answer(question_number, text) ==
    [question_number |-> question_number,
     question_text |-> "question",
     transcript |-> text]

\* the items a session can hold: an unanswered question as
\* handle_silence_timeout records it, and answers by question number
SessionItems ==
    << SetKey(Answer(1, ""), "answer_evaluation", no_response_evaluation(0)),
       Answer(2, " \t "),
       Answer(11, "python"),
       Answer(2, "list,ordered,use,memory,example,pop,same thing"),
       Answer(4, "inner join,table,use"),
       Answer(9, "pandas,use,data"),
       Answer(1, "python,project,tool,never used"),
       Answer(2, "Lists are mutable"),
       Answer(10, "schema,user") >>

\* the calls concurrent callers make
ThreadCalls ==
    << [transcript |-> "never used python", question_index |-> 0],
       [transcript |-> "list,ordered,use", question_index |-> 1],
       [transcript |-> "python", question_index |-> 10] >>

----------------------------------------------------------------------------
(* State *)

NoCall == [op |-> "none"]
Call(op, result) == [op |-> op, outcome |-> result.outcome, result |-> result]

\* an evaluator whose rubric has an entry with optimal_words = min_words
NewEvaluator_malformed ==
    /\ question_criteria =
          [_initialize_enhanced_criteria EXCEPT
              ![0].length_expectations.optimal_words =
                  _initialize_enhanced_criteria[0].length_expectations.min_words]
    /\ semantic_groups = _initialize_semantic_groups
    /\ synonyms = _initialize_synonyms
    /\ round_up_ties \in BOOLEAN

\* the evaluator after __init__
NewEvaluator ==
    /\ question_criteria = _initialize_enhanced_criteria
    /\ semantic_groups = _initialize_semantic_groups
    /\ synonyms = _initialize_synonyms
    /\ round_up_ties \in BOOLEAN

evaluator == <<question_criteria, semantic_groups, synonyms, round_up_ties>>
arguments == <<transcript, question_index>>
session == <<questions_data, session_data, enhanced_session>>

\* no interview controller has been constructed
NoController == <<>>

NoSession ==
    /\ questions_data = <<>>
    /\ session_data = <<>>
    /\ enhanced_session = <<>>

----------------------------------------------------------------------------
(* One call of an entry point on one (question index, transcript) pair *)

Init ==
    /\ NewEvaluator
    /\ transcript \in Transcripts
    /\ question_index \in QuestionIndexes
    /\ last_call = NoCall
    /\ NoSession
    /\ threads = <<>>
    /\ controller = NoController

EvaluateKeywordsAdvanced ==
    /\ last_call = NoCall
    /\ last_call' = Call("evaluate_keywords_advanced",
                         Returned(evaluate_keywords_advanced(transcript, question_index)))
    /\ UNCHANGED <<evaluator, arguments, session, threads, controller>>

EvaluateSingleAnswer ==
    /\ last_call = NoCall
    /\ last_call' = Call("evaluate_single_answer",
                         evaluate_single_answer(question_index, "question", transcript))
    /\ UNCHANGED <<evaluator, arguments, session, threads, controller>>

Next == EvaluateKeywordsAdvanced \/ EvaluateSingleAnswer

Spec == Init /\ [][Next]_vars

----------------------------------------------------------------------------
(* A session loaded from a file and handed to evaluate_full_interview *)

InitSession ==
    /\ NewEvaluator
    /\ transcript = ""
    /\ question_index = 0
    /\ last_call = NoCall
    /\ questions_data = <<>>
    /\ session_data = [candidate_name |-> "candidate",
                       questions_data |-> "the list questions_data"]
    /\ enhanced_session = <<>>
    /\ threads = <<>>
    /\ controller = NoController

\* one more item in the session's questions_data
LoadQuestionData(i) ==
    /\ last_call = NoCall
    /\ Len(questions_data) < MaxItems
    /\ questions_data' = Append(questions_data, SessionItems[i])
    /\ UNCHANGED <<evaluator, arguments, last_call, session_data,
                   enhanced_session, threads, controller>>

\* evaluate_full_interview(session_data).  session_data.copy() is shallow: the
\* copy holds the caller's list, whose items the loop writes to; the summary
\* is set on the copy alone.  An exception leaves the items written so far.
EvaluateFullInterview ==
    LET Finish(loop) ==
            /\ questions_data' = loop.items
            /\ IF loop.exception # ""
               THEN /\ last_call' = Call("evaluate_full_interview",
                                         Raised(loop.exception))
                    /\ UNCHANGED enhanced_session
               ELSE /\ last_call' = Call("evaluate_full_interview",
                                         Returned(loop.all_scores))
                    /\ enhanced_session' =
                          IF loop.all_scores # <<>>
                          THEN SetKey(session_data, "content_analysis_summary",
                                      content_analysis_summary(loop.all_scores))
                          ELSE session_data
    IN  /\ last_call = NoCall
        /\ Finish(interview_loop(questions_data, Len(questions_data)))
        /\ UNCHANGED <<evaluator, arguments, session_data, threads, controller>>

\* finish_interview, line 764: generate_reports on the session that
\* evaluate_full_interview returned, whose questions_data is the caller's list
GenerateReports ==
    /\ last_call.op = "evaluate_full_interview"
    /\ last_call.outcome = "returned"
    /\ last_call' = Call("generate_reports", _generate_text_report(questions_data))
    /\ UNCHANGED <<evaluator, arguments, session, threads, controller>>

NextSession ==
    \/ \E i \in 1..Len(SessionItems) : LoadQuestionData(i)
    \/ EvaluateFullInterview
    \/ GenerateReports

SpecSession == InitSession /\ [][NextSession]_vars

----------------------------------------------------------------------------
(* Concurrent calls of evaluate_keywords_advanced on one evaluator.  Each  *)
(* call keeps its locals to itself; a step is the code between two reads   *)
(* of the evaluator's tables.                                              *)

InitThreads ==
    /\ NewEvaluator
    /\ transcript = ""
    /\ question_index = 0
    /\ last_call = NoCall
    /\ NoSession
    /\ threads = <<>>
    /\ controller = NoController

\* a caller enters evaluate_keywords_advanced
ThreadStart(i) ==
    /\ Len(threads) < MaxThreads
    /\ threads' = Append(threads,
            [pc |-> "lookup",
             transcript |-> ThreadCalls[i].transcript,
             question_index |-> ThreadCalls[i].question_index,
             criteria |-> <<>>, found |-> <<>>, scored |-> <<>>, result |-> <<>>])
    /\ UNCHANGED <<evaluator, arguments, last_call, session, controller>>

\* the lookup done with question_criteria.pop(index): the entry is taken out
ThreadLookup_pop(k) ==
    /\ threads[k].pc = "lookup"
    /\ threads' = [threads EXCEPT ![k] =
            IF threads[k].question_index \notin DOMAIN question_criteria
            THEN [threads[k] EXCEPT !.pc = "done", !.result = question_not_found]
            ELSE [threads[k] EXCEPT !.pc = "match",
                     !.criteria = question_criteria[threads[k].question_index]]]
    /\ question_criteria' =
            [i \in DOMAIN question_criteria \ {threads[k].question_index}
                |-> question_criteria[i]]
    /\ UNCHANGED <<semantic_groups, synonyms, round_up_ties, arguments,
                   last_call, session, controller>>

\* lines 385-388: the rubric entry, or the early return
ThreadLookup(k) ==
    /\ threads[k].pc = "lookup"
    /\ threads' = [threads EXCEPT ![k] =
            IF threads[k].question_index \notin DOMAIN question_criteria
            THEN [threads[k] EXCEPT !.pc = "done", !.result = question_not_found]
            ELSE [threads[k] EXCEPT !.pc = "match",
                     !.criteria = question_criteria[threads[k].question_index]]]
    /\ UNCHANGED <<evaluator, arguments, last_call, session, controller>>

\* the matching done on a synonyms table that is a defaultdict: looking a
\* keyword up leaves an empty entry for it in the table
ThreadMatch_defaultdict(k) ==
    LET groups == threads[k].criteria.essential_keywords
                    \o threads[k].criteria.bonus_keywords
        looked_up == UNION {{groups[g].keywords[i] : i \in 1..Len(groups[g].keywords)}
                                : g \in 1..Len(groups)}
    IN  /\ threads[k].pc = "match"
        /\ threads' = [threads EXCEPT ![k] =
                [threads[k] EXCEPT !.pc = "score",
                     !.found = find_matches(threads[k].transcript, threads[k].criteria)]]
        /\ synonyms' = [kw \in DOMAIN synonyms \cup looked_up |->
                            IF kw \in DOMAIN synonyms THEN synonyms[kw] ELSE <<>>]
        /\ UNCHANGED <<question_criteria, semantic_groups, round_up_ties,
                       arguments, last_call, session, controller>>

\* lines 390-397
ThreadMatch(k) ==
    /\ threads[k].pc = "match"
    /\ threads' = [threads EXCEPT ![k] =
            [threads[k] EXCEPT !.pc = "score",
                      !.found = find_matches(threads[k].transcript, threads[k].criteria)]]
    /\ UNCHANGED <<evaluator, arguments, last_call, session, controller>>

\* lines 399-423
ThreadScore(k) ==
    /\ threads[k].pc = "score"
    /\ threads' = [threads EXCEPT ![k] =
            [threads[k] EXCEPT !.pc = "return",
                      !.scored = score_matches(threads[k].transcript,
                                    threads[k].criteria, threads[k].found)]]
    /\ UNCHANGED <<evaluator, arguments, last_call, session, controller>>

\* lines 425-441
ThreadReturn(k) ==
    /\ threads[k].pc = "return"
    /\ threads' = [threads EXCEPT ![k] =
            [threads[k] EXCEPT !.pc = "done",
                      !.result = build_result(threads[k].criteria,
                                    threads[k].found, threads[k].scored)]]
    /\ UNCHANGED <<evaluator, arguments, last_call, session, controller>>

NextThreads ==
    \/ \E i \in 1..Len(ThreadCalls) : ThreadStart(i)
    \/ \E k \in 1..Len(threads) :
          \/ ThreadLookup(k)
          \/ ThreadMatch(k)
          \/ ThreadScore(k)
          \/ ThreadReturn(k)

SpecThreads == InitThreads /\ [][NextThreads]_vars

----------------------------------------------------------------------------
(* Properties of one call (specification Spec) *)

HasRubric(index) == index \in DOMAIN question_criteria
KeywordCallDone == last_call.op = "evaluate_keywords_advanced"
SingleAnswerDone == last_call.op = "evaluate_single_answer"

\* tenths is a nearest multiple of 0.1 to the fraction x
NearestTenth(tenths, x) ==
    Abs(2 * tenths * x.d - 20 * x.n) <= x.d

\* Claim C1: for every question index that has a rubric entry and every
\* transcript, the keyword_score of evaluate_keywords_advanced and the
\* combined_score of evaluate_single_answer lie between 0 and 10 (0 and 100
\* tenths).
C1_ScoreInRange ==
    /\ KeywordCallDone /\ HasRubric(question_index)
         => /\ 0 <= last_call.result.value.keyword_score
            /\ last_call.result.value.keyword_score <= 100
    /\ SingleAnswerDone /\ HasRubric(question_index)
         => /\ last_call.outcome = "returned"
            /\ 0 <= last_call.result.value.combined_score
            /\ last_call.result.value.combined_score <= 100

\* a call whose penalty exceeds the weighted score: the lower clamp acts
C1_Witness ==
    /\ KeywordCallDone /\ HasRubric(question_index)
    /\ ~is_blank(transcript)
    /\ last_call.result.value.detailed_breakdown.negative_penalty >= 1
    /\ last_call.result.value.keyword_score = 0

\* Claim C3: evaluate_single_answer with a question index that has no rubric
\* entry does not raise; it returns a result whose combined score is 0 and
\* that carries the 'question not found' tag.
C3_UnknownQuestionReturnsZero ==
    SingleAnswerDone /\ ~HasRubric(question_index)
        => /\ last_call.outcome = "returned"
           /\ last_call.result.value.combined_score = 0
           /\ last_call.result.value.keyword_evaluation.details = "Question not found"

\* Claim C8: the final score is a nearest tenth to clamp(raw - penalty, 0, 10),
\* where raw = (essential*w_essential + bonus*w_bonus + structure*w_structure)
\* * 10 with the weights of the question's rubric entry.
C8_ScoreFormula ==
    KeywordCallDone /\ HasRubric(question_index) =>
        LET criteria == question_criteria[question_index]
            w == criteria.scoring_weights
            found == find_matches(transcript, criteria)
            essentialScore ==
                _calculate_category_score(found.exact_matches.essential,
                    found.semantic_matches.essential, criteria.essential_keywords)
            bonusScore ==
                _calculate_category_score(found.exact_matches.bonus,
                    found.semantic_matches.bonus, criteria.bonus_keywords)
            structureScore == _analyze_structure(transcript, criteria)
            penalty == _calculate_negative_penalty(found.transcript_clean, criteria)
            raw == RMul(Whole(10),
                        RAdd(RMul(essentialScore, w.essential),
                             RAdd(RMul(bonusScore, w.bonus),
                                  RMul(structureScore, w.structure))))
            lowered == RSub(raw, Whole(penalty))
            clamped == IF RLt(lowered, Whole(0)) THEN Whole(0)
                       ELSE IF RLt(Whole(10), lowered) THEN Whole(10)
                       ELSE lowered
        IN  NearestTenth(last_call.result.value.keyword_score, clamped)

\* a call with all three sub-scores positive, a penalty, and a score left
C8_Witness ==
    /\ KeywordCallDone /\ HasRubric(question_index)
    /\ last_call.result.value.detailed_breakdown.essential_score > 0
    /\ last_call.result.value.detailed_breakdown.structure_score > 0
    /\ last_call.result.value.detailed_breakdown.negative_penalty >= 1
    /\ last_call.result.value.keyword_score > 0
    /\ question_criteria[question_index].scoring_weights.essential = Dec(7, 10)

\* Claim C10: for every rubric question, the empty transcript scores 0.
C10_EmptyTranscriptScoresZero ==
    /\ KeywordCallDone /\ HasRubric(question_index) /\ transcript = ""
         => last_call.result.value.keyword_score = 0
    /\ SingleAnswerDone /\ HasRubric(question_index) /\ transcript = ""
         => /\ last_call.outcome = "returned"
            /\ last_call.result.value.combined_score = 0

C10_Witness ==
    /\ KeywordCallDone /\ HasRubric(question_index) /\ transcript = ""
    /\ last_call.result.value.keyword_score = 0
    /\ last_call.result.value.detailed_breakdown.structure_score = 0
    /\ last_call.result.value.coverage_analysis.essential_coverage = 0

----------------------------------------------------------------------------
(* Properties of a session evaluation (specification SpecSession) *)

FullInterviewDone == last_call.op = "evaluate_full_interview"

\* the transcript has a character that is not white space
NonBlank(text) == \E i \in 1..Len(text) : ~IsSpace(Char(text, i))

Items == 1..Len(questions_data)
NonBlankItems == {i \in Items : NonBlank(questions_data[i].transcript)}
ItemHasRubric(i) == HasRubric(questions_data[i].question_number - 1)
\* the item carries an evaluation made by evaluate_single_answer
Evaluated(i) ==
    /\ "answer_evaluation" \in DOMAIN questions_data[i]
    /\ questions_data[i].answer_evaluation.score_breakdown.scoring_method
          = "Advanced Keyword Matching"
EvaluatedItems == {i \in Items : Evaluated(i)}
Score(i) == questions_data[i].answer_evaluation.combined_score
SummaryPresent == "content_analysis_summary" \in DOMAIN enhanced_session
Summary == enhanced_session.content_analysis_summary

RECURSIVE ScoreSum(_)
ScoreSum(S) == IF S = {} THEN 0
               ELSE LET i == CHOOSE x \in S : TRUE
                    IN  Score(i) + ScoreSum(S \ {i})

\* Claim C2: evaluate_full_interview over a session in which one item's
\* question_number has no rubric entry runs to completion without raising,
\* and every other item with a non-blank transcript still receives its
\* evaluation and is counted in the summary.
C2_UnknownIndexDoesNotAbort ==
    FullInterviewDone /\ (\E i \in NonBlankItems : ~ItemHasRubric(i)) =>
        LET others == {j \in NonBlankItems : ItemHasRubric(j)}
        IN  /\ last_call.outcome = "returned"
            /\ \A j \in others : Evaluated(j)
            /\ others # {} =>
                  /\ SummaryPresent
                  /\ Summary.total_questions_evaluated >= Cardinality(others)

\* Claim C4: evaluate_full_interview evaluates exactly the items whose
\* transcript is not empty or whitespace-only: each of them, and no other
\* item, gets an answer_evaluation; total_questions_evaluated is their number
\* and the summary is over their scores.
C4_EvaluatesExactlyNonBlankItems ==
    FullInterviewDone =>
        /\ last_call.outcome = "returned"
        /\ EvaluatedItems = NonBlankItems
        /\ NonBlankItems # {} =>
              /\ SummaryPresent
              /\ Summary.total_questions_evaluated = Cardinality(NonBlankItems)
              /\ \E i \in NonBlankItems : Summary.highest_score = Score(i)
              /\ \E i \in NonBlankItems : Summary.lowest_score = Score(i)

C9_SummaryStatistics ==
    FullInterviewDone /\ last_call.outcome = "returned" /\ EvaluatedItems # {} =>
        LET E == EvaluatedItems
            n == Cardinality(E)
            In(low, high) == Cardinality({i \in E : low <= Score(i) /\ Score(i) < high})
            buckets == Summary.score_distribution
        IN  /\ SummaryPresent
            /\ Summary.total_questions_evaluated = n
            /\ \E i \in E : Summary.highest_score = Score(i)
            /\ \A i \in E : Score(i) <= Summary.highest_score
            /\ \E i \in E : Summary.lowest_score = Score(i)
            /\ \A i \in E : Summary.lowest_score <= Score(i)
            /\ Abs(2 * n * Summary.average_content_score - 2 * ScoreSum(E)) <= n
            /\ Summary.questions_above_7 = In(70, 101)
            /\ Summary.questions_below_5 = In(0, 50)
            /\ buckets.poor = In(0, 40)
            /\ buckets.fair = In(40, 60)
            /\ buckets.good = In(60, 80)
            /\ buckets.excellent = In(80, 101)
            /\ buckets.poor + buckets.fair + buckets.good + buckets.excellent = n

\* a summary over scores on the bucket boundaries 8.0 and 4.0 and on 7.0
C9_Witness ==
    /\ FullInterviewDone /\ SummaryPresent
    /\ \E i \in EvaluatedItems : Score(i) = 80
    /\ \E i \in EvaluatedItems : Score(i) = 70
    /\ \E i \in EvaluatedItems : Score(i) = 40
    /\ Summary.total_questions_evaluated = 3

----------------------------------------------------------------------------
(* Properties of concurrent calls (specification SpecThreads) *)

Done(k) == threads[k].pc = "done"
SameCall(i, j) ==
    /\ threads[i].transcript = threads[j].transcript
    /\ threads[i].question_index = threads[j].question_index

\* Claim C6: evaluating the same (question index, transcript) pair twice on
\* the same evaluator, whatever other evaluations run in between, yields
\* identical results.
C6_SamePairSameResult ==
    \A i, j \in 1..Len(threads) :
        Done(i) /\ Done(j) /\ SameCall(i, j) => threads[i].result = threads[j].result

\* the pair evaluated first and third, another pair in between
C6_Witness ==
    /\ Len(threads) = 3
    /\ \A k \in 1..3 : Done(k)
    /\ SameCall(1, 3) /\ ~SameCall(1, 2)
    /\ HasRubric(threads[1].question_index)
    /\ threads[1].result = threads[3].result

\* Claim C7: under any interleaving of concurrent evaluate_keywords_advanced
\* calls on one evaluator, each call returns the result it returns when run
\* alone, and the rubric, semantic-group and synonym tables stay as __init__
\* built them.
C7_ConcurrentCallsIndependent ==
    /\ question_criteria = _initialize_enhanced_criteria
    /\ semantic_groups = _initialize_semantic_groups
    /\ synonyms = _initialize_synonyms
    /\ \A k \in 1..Len(threads) :
          Done(k) => threads[k].result =
                        evaluate_keywords_advanced(threads[k].transcript,
                                                   threads[k].question_index)

\* a call that started later has returned while an earlier one is mid-way
C7_Witness ==
    \E i, j \in 1..Len(threads) :
        /\ i < j
        /\ threads[i].pc \in {"score", "return"}
        /\ Done(j) /\ HasRubric(threads[j].question_index)
        /\ ~SameCall(i, j)


----------------------------------------------------------------------------
(* A caller that evaluates an answer and then a revision of it to the same *)
(* question (specification SpecRevision)                                   *)

\* the answers first evaluated: none holds a negative phrase of any question
FirstAnswers ==
    { "I deployed to ...", "python really", "list,ordered,use really",
      "I use it really" }

\* the words a revision puts in the place of the answer's last word
EvidenceWords == << "collection", "method", "background", "prod", "table" >>

\* the answer up to and without its last word
WithoutLastWord(answer) ==
    LET UpTo(spaces) ==
            IF spaces = {} THEN ""
            ELSE SubSeq(answer, 1, CHOOSE i \in spaces : \A j \in spaces : j <= i)
    IN  UpTo({i \in 1..Len(answer) : Char(answer, i) = " "})

\* the revisions of an answer to question index: a negative phrase of the
\* question added, the first keyword of an essential group added, or the last
\* word exchanged
Revisions(answer, index) ==
    LET criteria == _initialize_enhanced_criteria[index]
    IN  {answer \o " " \o criteria.negative_keywords[i] :
            i \in 1..Len(criteria.negative_keywords)}
        \cup {answer \o " " \o criteria.essential_keywords[g].keywords[1] :
                g \in 1..Len(criteria.essential_keywords)}
        \cup {WithoutLastWord(answer) \o EvidenceWords[i] :
                i \in 1..Len(EvidenceWords)}

InitRevision ==
    /\ NewEvaluator
    /\ transcript \in FirstAnswers
    /\ question_index \in DOMAIN _initialize_enhanced_criteria
    /\ last_call = NoCall
    /\ NoSession
    /\ threads = <<>>
    /\ controller = NoController

\* the second call: evaluate_keywords_advanced on the revised answer; the
\* caller keeps the first answer and its result next to the new result
EvaluateRevisedAnswer(revised) ==
    /\ last_call.op = "evaluate_keywords_advanced"
    /\ "earlier" \notin DOMAIN last_call
    /\ transcript' = revised
    /\ last_call' =
          [op |-> "evaluate_keywords_advanced",
           outcome |-> "returned",
           result |-> Returned(evaluate_keywords_advanced(revised, question_index)),
           earlier |-> [transcript |-> transcript, result |-> last_call.result]]
    /\ UNCHANGED <<evaluator, question_index, session, threads, controller>>

NextRevision ==
    \/ EvaluateKeywordsAdvanced
    \/ \E revised \in Revisions(transcript, question_index) :
            EvaluateRevisedAnswer(revised)

SpecRevision == InitRevision /\ [][NextRevision]_vars

----------------------------------------------------------------------------
(* Properties of an answer and its revision (specification SpecRevision) *)

RevisionDone == "earlier" \in DOMAIN last_call
Before == last_call.earlier.result.value
After == last_call.result.value

\* the revision is the first answer with the phrase added at its end
AddedPhrase(phrase) == transcript = last_call.earlier.transcript \o " " \o phrase

\* the phrase occurs in the text, whatever the case of its letters
Contains(text, phrase) == StrIn(phrase, str_lower(text))

NegativePhrases == {question_criteria[question_index].negative_keywords[i] :
                        i \in 1..Len(question_criteria[question_index].negative_keywords)}

\* Claim C11: when a negative phrase of the question is added to a transcript
\* that contains none of the question's negative phrases, the final score does
\* not rise, and it falls unless it is at the floor 0.
C11_NegativePhraseLowersScore ==
    RevisionDone =>
        \A p \in NegativePhrases :
            /\ AddedPhrase(p)
            /\ \A q \in NegativePhrases : ~Contains(last_call.earlier.transcript, q)
            => /\ After.keyword_score <= Before.keyword_score
               /\ After.keyword_score < Before.keyword_score \/ After.keyword_score = 0

\* the keywords of the question's essential groups
EssentialKeywords ==
    UNION {{group.keywords[i] : i \in 1..Len(group.keywords)} :
            group \in {question_criteria[question_index].essential_keywords[g] :
                        g \in 1..Len(question_criteria[question_index].essential_keywords)}}

EssentialGroupNames ==
    {question_criteria[question_index].essential_keywords[g].name :
        g \in 1..Len(question_criteria[question_index].essential_keywords)}

\* what a group adds to its category's score, in tenths, read from the
\* matches a result reports
Contribution(result, category, group_name) ==
    IF Get(result.matches_found.exact[category], group_name) # <<>> THEN 10
    ELSE IF Get(result.matches_found.semantic[category], group_name) # <<>> THEN 7
    ELSE 0

IndicatorsIn(text) ==
    LET In(text_lower) ==
            {i \in 1..Len(structure_indicators) :
                StrIn(structure_indicators[i], text_lower)}
    IN  In(str_lower(text))

\* the two evaluations agree on everything but synonym and pattern evidence:
\* exact and semantic matches, raw word count, structure indicators and
\* negative-phrase hits
SameScoringEvidence ==
    /\ After.matches_found.exact = Before.matches_found.exact
    /\ After.matches_found.semantic = Before.matches_found.semantic
    /\ str_split_len(transcript) = str_split_len(last_call.earlier.transcript)
    /\ IndicatorsIn(transcript) = IndicatorsIn(last_call.earlier.transcript)
    /\ After.detailed_breakdown.negative_penalty
          = Before.detailed_breakdown.negative_penalty

\* Claim C20: two evaluations of the same question that agree on exact
\* matches, semantic matches, raw word count, structure indicators and
\* negative-phrase hits have the same final score, sub-score breakdown,
\* coverage and suggestions, whatever synonym and pattern matches each has.
C20_SynonymsAndPatternsDoNotScore ==
    RevisionDone /\ SameScoringEvidence =>
        /\ After.keyword_score = Before.keyword_score
        /\ After.detailed_breakdown = Before.detailed_breakdown
        /\ After.coverage_analysis = Before.coverage_analysis
        /\ After.improvement_suggestions = Before.improvement_suggestions

\* the revision has synonym evidence the first answer has not, and nothing
\* else that counts is different
C20_Witness ==
    /\ RevisionDone /\ SameScoringEvidence
    /\ After.matches_found.synonyms # Before.matches_found.synonyms
    /\ After.matches_found.synonyms.essential # <<>>
    /\ After.keyword_score > 0

----------------------------------------------------------------------------
(* The two worked scenarios (specification Spec) *)

AnyCallDone == KeywordCallDone \/ (SingleAnswerDone /\ last_call.outcome = "returned")

\* the keyword result of the call, which evaluate_single_answer wraps
KeywordResult ==
    IF KeywordCallDone THEN last_call.result.value
    ELSE last_call.result.value.keyword_evaluation

\* the score the call reports: keyword_score, or the combined_score copied
\* from it
ReportedScore ==
    IF KeywordCallDone THEN last_call.result.value.keyword_score
    ELSE last_call.result.value.combined_score

SqlInjectionDontKnow ==
    AnyCallDone /\ question_index = 7 /\ transcript = "I don't know"

\* Claim C12 as stated: question 7 (SQL injection) with the transcript
\* "I don't know" gets a negative-keyword penalty of at least 1 and the final
\* score 0.
C12_DontKnowPenalisedToZero ==
    SqlInjectionDontKnow =>
        /\ KeywordResult.detailed_breakdown.negative_penalty >= 1
        /\ ReportedScore = 0

\* Claim C12, amended: question 7 with the transcript "I don't know" gets no
\* negative-keyword penalty and no keyword credit; its score is the length
\* credit of three words, 3/30 * 0.5 * 0.1 * 10 = 0.05, rounded to one
\* decimal: 0.1 at most, and not 0 by any penalty.
C12_DontKnowUnpenalised ==
    SqlInjectionDontKnow =>
        /\ KeywordResult.detailed_breakdown.negative_penalty = 0
        /\ KeywordResult.detailed_breakdown.essential_score = 0
        /\ KeywordResult.detailed_breakdown.bonus_score = 0
        /\ KeywordResult.detailed_breakdown.structure_score = 5
        /\ ReportedScore \in {0, 1}
        /\ NearestTenth(ReportedScore, Dec(1, 20))

C12_Witness ==
    /\ SqlInjectionDontKnow /\ SingleAnswerDone
    /\ "don't worry about" \in
          {question_criteria[7].negative_keywords[i] :
              i \in 1..Len(question_criteria[7].negative_keywords)}
    /\ KeywordResult.detailed_breakdown.negative_penalty = 0

ListsVsTuplesAnswer ==
    "Lists are mutable and tuples are immutable. You use a list when ordered, changeable data is needed, and a tuple when you want fixed data. For example, coordinates are often tuples."

\* Claim C13: question 1 (lists vs tuples) with the answer above records an
\* exact match in each of the essential groups data_types, characteristics
\* and use_cases, and its score lies between 7 and 9 (70 and 90 tenths).
C13_ListsVsTuplesScenario ==
    AnyCallDone /\ question_index = 1 /\ transcript = ListsVsTuplesAnswer =>
        /\ \A g \in {"data_types", "characteristics", "use_cases"} :
              /\ g \in DOMAIN KeywordResult.matches_found.exact.essential
              /\ KeywordResult.matches_found.exact.essential[g] # <<>>
        /\ 70 <= ReportedScore
        /\ ReportedScore <= 90

C13_Witness ==
    /\ KeywordCallDone /\ question_index = 1 /\ transcript = ListsVsTuplesAnswer
    /\ "ordered" \in {KeywordResult.matches_found.exact.essential.characteristics[i] :
            i \in 1..Len(KeywordResult.matches_found.exact.essential.characteristics)}
    /\ ReportedScore = 84

----------------------------------------------------------------------------
(* Properties of the diagnostics of one call (specification Spec) *)

EssentialGroups == question_criteria[question_index].essential_keywords
BonusGroups == question_criteria[question_index].bonus_keywords

\* the essential groups, by position, for which the result reports no exact hit
Unmet ==
    {g \in 1..Len(EssentialGroups) :
        Get(KeywordResult.matches_found.exact.essential, EssentialGroups[g].name) = <<>>}

\* the k-th of them in rubric order
NthUnmet(k) == CHOOSE g \in Unmet : Cardinality({h \in Unmet : h < g}) = k - 1

\* the first three keywords of a group, separated by commas
FirstThree(keywords) ==
    CASE Len(keywords) = 0 -> ""
      [] Len(keywords) = 1 -> keywords[1]
      [] Len(keywords) = 2 -> keywords[1] \o ", " \o keywords[2]
      [] OTHER -> keywords[1] \o ", " \o keywords[2] \o ", " \o keywords[3]

\* the suggestion names the group (its underscores read as spaces) and lists
\* the group's first three keywords and nothing else
NamesGroup(suggestion, group) ==
    LET lead == "Consider mentioning "
        from == Len(lead) + Len(group.name)
    IN  /\ Len(suggestion) = from + 2 + Len(FirstThree(group.keywords))
        /\ SubSeq(suggestion, 1, Len(lead)) = lead
        /\ \A i \in 1..Len(group.name) :
              Char(suggestion, Len(lead) + i) =
                  IF Char(group.name, i) = "_" THEN " " ELSE Char(group.name, i)
        /\ SubSeq(suggestion, from + 1, from + 2) = ": "
        /\ SubSeq(suggestion, from + 3, Len(suggestion)) = FirstThree(group.keywords)

\* Claim C15: improvement_suggestions holds one suggestion for each essential
\* group without an exact hit, in rubric order, the first three such groups
\* only, each naming its group and at most the group's first three keywords;
\* it has at most 3 entries and none for a group with an exact hit.
C15_SuggestionsForUnmetGroups ==
    AnyCallDone /\ HasRubric(question_index) =>
        /\ Len(KeywordResult.improvement_suggestions) <= 3
        /\ Len(KeywordResult.improvement_suggestions)
              = (IF Cardinality(Unmet) < 3 THEN Cardinality(Unmet) ELSE 3)
        /\ \A k \in 1..Len(KeywordResult.improvement_suggestions) :
              NamesGroup(KeywordResult.improvement_suggestions[k],
                         EssentialGroups[NthUnmet(k)])

\* the first group has an exact hit, the second and the third have none
C15_Witness ==
    /\ KeywordCallDone /\ HasRubric(question_index)
    /\ Unmet = {2, 3}
    /\ Len(KeywordResult.improvement_suggestions) = 2
    /\ Len(EssentialGroups[3].keywords) > 3

\* the groups of a category, by name, that the result reports an exact or a
\* semantic hit for
Covered(category, groups) ==
    {g \in 1..Len(groups) : Contribution(KeywordResult, category, groups[g].name) > 0}

\* the groups with evidence from the synonym matcher alone
SynonymOnly(category, groups) ==
    {g \in 1..Len(groups) :
        /\ Get(KeywordResult.matches_found.synonyms[category], groups[g].name) # <<>>
        /\ g \notin Covered(category, groups)}

\* percent, held in tenths of a percent, is covered/total * 100 to one decimal
IsCoverage(percent, covered, total) ==
    /\ 0 <= percent /\ percent <= 1000
    /\ NearestTenth(percent, Dec(covered * 100, total))

\* Claim C16: the essential and the bonus coverage percentage are the share of
\* the category's groups that have an exact or a semantic hit, times 100, to
\* one decimal, hence between 0 and 100; a group with synonym or pattern
\* evidence only is not counted.
C16_CoveragePercentage ==
    AnyCallDone /\ HasRubric(question_index) =>
        /\ IsCoverage(KeywordResult.coverage_analysis.essential_coverage,
                      Cardinality(Covered("essential", EssentialGroups)),
                      Len(EssentialGroups))
        /\ IsCoverage(KeywordResult.coverage_analysis.bonus_coverage,
                      Cardinality(Covered("bonus", BonusGroups)), Len(BonusGroups))

\* one group covered by a semantic hit alone, another with synonym evidence
\* alone, and the coverage below 100
C16_Witness ==
    /\ KeywordCallDone /\ HasRubric(question_index)
    /\ SynonymOnly("essential", EssentialGroups) # {}
    /\ \E g \in Covered("essential", EssentialGroups) :
          Get(KeywordResult.matches_found.exact.essential, EssentialGroups[g].name) = <<>>
    /\ KeywordResult.coverage_analysis.essential_coverage < 1000

----------------------------------------------------------------------------
(* The rubric the evaluations run against *)

\* the entry has the three weights, and length bounds in strict order
WellFormed(criteria) ==
    /\ "scoring_weights" \in DOMAIN criteria
    /\ {"essential", "bonus", "structure"} \subseteq DOMAIN criteria.scoring_weights
    /\ "length_expectations" \in DOMAIN criteria
    /\ criteria.length_expectations.min_words < criteria.length_expectations.optimal_words
    /\ criteria.length_expectations.optimal_words < criteria.length_expectations.max_words

----------------------------------------------------------------------------
(* The text normalizer called on its own (specification SpecClean) *)

\* most pieces a text handed to _clean_text is put together from
MaxPieces == 3

\* the pieces: words, whitespace, and contractions standing alone
Pieces == << " ", "\t\n", "We", "Do", "n't", "'re" >>

\* every sequence of at most n piece numbers
RECURSIVE PieceSeqs(_)
PieceSeqs(n) ==
    IF n = 0 THEN {<<>>}
    ELSE PieceSeqs(n - 1) \cup
         {Append(s, i) : s \in {x \in PieceSeqs(n - 1) : Len(x) = n - 1},
                         i \in 1..Len(Pieces)}

Texts == {str_join("", [i \in 1..Len(s) |-> Pieces[s[i]]]) : s \in PieceSeqs(MaxPieces)}

InitClean ==
    /\ NewEvaluator
    /\ transcript \in Texts
    /\ question_index = 0
    /\ last_call = NoCall
    /\ NoSession
    /\ threads = <<>>
    /\ controller = NoController

CleanText ==
    /\ last_call = NoCall
    /\ last_call' = Call("_clean_text", Returned(_clean_text(transcript)))
    /\ UNCHANGED <<evaluator, arguments, session, threads, controller>>

NextClean == CleanText

SpecClean == InitClean /\ [][NextClean]_vars

CleanTextDone == last_call.op = "_clean_text"

\* no whitespace at either end and no two whitespace characters in a row
WhitespaceNormal(text) ==
    /\ text # "" => ~IsSpace(Char(text, 1)) /\ ~IsSpace(Char(text, Len(text)))
    /\ \A i \in 1..(Len(text) - 1) :
          ~(IsSpace(Char(text, i)) /\ IsSpace(Char(text, i + 1)))

\* Claim C18: for every input, the text _clean_text returns has no leading or
\* trailing whitespace and no run of two or more whitespace characters, the
\* expanded contractions included.
C18_CleanTextWhitespaceNormal ==
    CleanTextDone => WhitespaceNormal(last_call.result.value)

----------------------------------------------------------------------------
(* The category scorer called on its own (specification SpecCategory) *)

\* most groups of the category handed to _calculate_category_score
MaxGroups == 3

\* the categories: the first groups of the bonus category of question 0
Categories ==
    LET groups == _initialize_enhanced_criteria[0].bonus_keywords
    IN  {SubSeq(groups, 1, n) : n \in 0..(IF MaxGroups < Len(groups)
                                          THEN MaxGroups ELSE Len(groups))}

\* the dictionaries a matcher can return for the groups: a list of hits
\* under the name of some of them
MatchesFor(keyword_groups, hit) ==
    {[g \in names |-> <<hit>>] :
        names \in SUBSET {keyword_groups[i].name : i \in 1..Len(keyword_groups)}}

InitCategory ==
    /\ NewEvaluator
    /\ transcript = ""
    /\ question_index = 0
    /\ last_call = NoCall
    /\ NoSession
    /\ threads = <<>>
    /\ controller = NoController

CalculateCategoryScore(exact_matches, semantic_matches, keyword_groups) ==
    /\ last_call = NoCall
    /\ last_call' =
          [op |-> "_calculate_category_score",
           outcome |-> "returned",
           exact_matches |-> exact_matches,
           semantic_matches |-> semantic_matches,
           keyword_groups |-> keyword_groups,
           result |-> Returned(_calculate_category_score(exact_matches,
                                    semantic_matches, keyword_groups))]
    /\ UNCHANGED <<evaluator, arguments, session, threads, controller>>

NextCategory ==
    \E keyword_groups \in Categories :
        \E exact_matches \in MatchesFor(keyword_groups, "exact hit"),
           semantic_matches \in MatchesFor(keyword_groups, "hit (semantic)") :
            CalculateCategoryScore(exact_matches, semantic_matches, keyword_groups)

SpecCategory == InitCategory /\ [][NextCategory]_vars

CategoryScoreDone == last_call.op = "_calculate_category_score"

\* the groups of the call that have an exact match, and those that have a
\* semantic match and no exact one
WithExact ==
    {i \in 1..Len(last_call.keyword_groups) :
        last_call.keyword_groups[i].name \in DOMAIN last_call.exact_matches}
WithSemanticOnly ==
    {i \in 1..Len(last_call.keyword_groups) :
        /\ last_call.keyword_groups[i].name \in DOMAIN last_call.semantic_matches
        /\ i \notin WithExact}

\* Claim C19: the category score is 1.0 for each group with an exact match
\* plus 0.7 for each group with a semantic match only, over the number of
\* groups; it is 1.0 for a category without groups; it lies between 0 and 1.
C19_CategoryScore ==
    CategoryScoreDone =>
        /\ Len(last_call.keyword_groups) = 0 => last_call.result.value = Whole(1)
        /\ Len(last_call.keyword_groups) > 0 =>
              last_call.result.value.n * 10 * Len(last_call.keyword_groups)
                = (10 * Cardinality(WithExact) + 7 * Cardinality(WithSemanticOnly))
                    * last_call.result.value.d
        /\ RLe(Whole(0), last_call.result.value)
        /\ RLe(last_call.result.value, Whole(1))

\* three groups: one with an exact match, one with a semantic match only, one
\* with neither
C19_Witness ==
    /\ CategoryScoreDone
    /\ Len(last_call.keyword_groups) = 3
    /\ Cardinality(WithExact) = 1
    /\ Cardinality(WithSemanticOnly) = 1
    /\ last_call.result.value = [n |-> 17, d |-> 30]

----------------------------------------------------------------------------
(* The negative-keyword penalty (specification Spec) *)

\* Claim C21: the negative-keyword penalty of an evaluation is 1.0 (reported
\* as a whole number) for each negative phrase of the question that occurs in
\* the transcript, whatever the case of its letters, with no cap; a transcript
\* that holds the negative phrase "don't know" of its question is penalised by
\* at least 1.
C21_PenaltyCountsNegativePhrases ==
    AnyCallDone /\ HasRubric(question_index) =>
        /\ KeywordResult.detailed_breakdown.negative_penalty
              = Cardinality({p \in NegativePhrases : Contains(transcript, p)})
        /\ "don't know" \in NegativePhrases /\ Contains(transcript, "don't know")
              => KeywordResult.detailed_breakdown.negative_penalty >= 1

----------------------------------------------------------------------------
(* The presence test called on its own (specification SpecPresence) *)

\* most fragments a text handed to _is_keyword_present is put together from
MaxFragments == 2

\* the fragments: words that hold a keyword inside them, keywords standing
\* alone, and separators
Fragments == << "party", "art", " ", "smart", ".", "state of the art" >>

\* every text of at most n fragments
RECURSIVE FragmentTexts(_)
FragmentTexts(n) ==
    IF n = 0 THEN {""}
    ELSE FragmentTexts(n - 1) \cup
         {text \o Fragments[i] : text \in FragmentTexts(n - 1),
                                 i \in 1..Len(Fragments)}

\* the keywords asked for: single words and a phrase
PresenceKeywords == {"art", "part", "mart", "state of the art"}

InitPresence ==
    /\ NewEvaluator
    /\ transcript \in FragmentTexts(MaxFragments)
    /\ question_index = 0
    /\ last_call = NoCall
    /\ NoSession
    /\ threads = <<>>
    /\ controller = NoController

IsKeywordPresent(keyword) ==
    /\ last_call = NoCall
    /\ last_call' = [op |-> "_is_keyword_present",
                     outcome |-> "returned",
                     result |-> Returned(_is_keyword_present(transcript, keyword)),
                     keyword |-> keyword]
    /\ UNCHANGED <<evaluator, arguments, session, threads, controller>>

NextPresence == \E keyword \in PresenceKeywords : IsKeywordPresent(keyword)

SpecPresence == InitPresence /\ [][NextPresence]_vars

PresenceDone == last_call.op = "_is_keyword_present"

\* the phrase stands in the text with no word character next to it on either
\* side
OccursAsWholePhrase(text, phrase) ==
    \E i \in 0..(Len(text) - Len(phrase)) :
        /\ SubSeq(text, i + 1, i + Len(phrase)) = phrase
        /\ i = 0 \/ ~IsWordChar(Char(text, i))
        /\ i + Len(phrase) = Len(text) \/ ~IsWordChar(Char(text, i + Len(phrase) + 1))

\* Claim C22: the presence test reports a phrase present only when the phrase
\* occurs in the text as a whole word or whole phrase, bounded by non-word
\* characters or the ends of the text; a phrase that occurs only inside a
\* larger word ("art" inside "party") is not reported present.
C22_PresentOnlyAsWholeWord ==
    PresenceDone /\ last_call.result.value
        => OccursAsWholePhrase(transcript, last_call.keyword)

----------------------------------------------------------------------------
(* The structure analysis called on its own (specification SpecStructure) *)

\* most structure indicators put into a transcript
MaxIndicators == 4

\* indicator words, in the cases a transcript may have them
IndicatorWords == << "First ", "second ", "THEN ", "next ", "finally " >>

\* a transcript of n words of which the first k are structure indicators
StructureAnswer(n, k) ==
    str_join("", [i \in 1..k |-> IndicatorWords[i]]) \o Filler(n - k)

\* the word counts at and around the corners of a length curve
WordCounts(length_expectations) ==
    {0, 1} \cup
    {length_expectations.min_words + d : d \in {-1, 0, 1}} \cup
    {length_expectations.optimal_words + d : d \in {-1, 0, 1}} \cup
    {length_expectations.max_words + d : d \in {-1, 0, 1, 14, 15, 16, 40}}

InitStructure ==
    /\ NewEvaluator
    /\ question_index \in DOMAIN _initialize_enhanced_criteria
    /\ transcript \in
          UNION {{StructureAnswer(n, k) :
                    k \in 0..(IF n < MaxIndicators THEN n ELSE MaxIndicators)} :
                 n \in WordCounts(_initialize_enhanced_criteria[question_index].length_expectations)}
    /\ last_call = NoCall
    /\ NoSession
    /\ threads = <<>>
    /\ controller = NoController

AnalyzeStructure ==
    /\ last_call = NoCall
    /\ last_call' = Call("_analyze_structure",
                         Returned(_analyze_structure(transcript,
                                                     question_criteria[question_index])))
    /\ UNCHANGED <<evaluator, arguments, session, threads, controller>>

NextStructure == AnalyzeStructure

SpecStructure == InitStructure /\ [][NextStructure]_vars

----------------------------------------------------------------------------
(* Properties of the structure score (specification SpecStructure) *)

StructureDone == last_call.op = "_analyze_structure"
StructureScore == last_call.result.value

\* the whitespace-split word count of the raw transcript and the corners of
\* the question's length curve
WordCount == str_split_len(transcript)
MinWords == question_criteria[question_index].length_expectations.min_words
OptimalWords == question_criteria[question_index].length_expectations.optimal_words
MaxWords == question_criteria[question_index].length_expectations.max_words

\* the smaller of two integers
Smaller(a, b) == IF a < b THEN a ELSE b

\* the fraction x is num / den
IsRatio(x, num, den) == x.n * den = x.d * num

\* the length component for n words as a pair <<numerator, denominator>>:
\*   n < min            n / (2 min)
\*   min <= n <= opt    ((opt - min) + (n - min)) / (2 (opt - min))
\*   opt < n <= max     (5 (max - opt) - (n - opt)) / (5 (max - opt))
\*   n > max            (40 - min(n - max, 15)) / 50
LengthCurve(n) ==
    IF n < MinWords THEN << n, 2 * MinWords >>
    ELSE IF n <= OptimalWords
    THEN << (OptimalWords - MinWords) + (n - MinWords), 2 * (OptimalWords - MinWords) >>
    ELSE IF n <= MaxWords
    THEN << 5 * (MaxWords - OptimalWords) - (n - OptimalWords), 5 * (MaxWords - OptimalWords) >>
    ELSE << 40 - (IF n - MaxWords < 15 THEN n - MaxWords ELSE 15), 50 >>

\* Claim C23: for a transcript of n words that holds no structure indicator,
\* the structure score is the length component: (n/min)*0.5 for n < min,
\* 0.5 + (n-min)/(optimal-min)*0.5 up to optimal, 1.0 - (n-optimal)/
\* (max-optimal)*0.2 up to max, and 0.8 - min((n-max)/50, 0.3) beyond; it is
\* at least 0.5 for n >= min, 0.8 at n = max, and one step of 1/50 under 0.8
\* at n = max + 1.
C23_LengthComponent ==
    LET Holds(n, score) ==
            /\ IsRatio(score, LengthCurve(n)[1], LengthCurve(n)[2])
            /\ n >= MinWords => 2 * score.n >= score.d
            /\ n = MaxWords => IsRatio(score, 4, 5)
            /\ n = MaxWords + 1 => IsRatio(score, 39, 50)
    IN  StructureDone /\ IndicatorsIn(transcript) = {}
            => Holds(WordCount, StructureScore)

\* an answer so far over max_words that the deduction is capped at 0.3
C23_Witness ==
    /\ StructureDone /\ IndicatorsIn(transcript) = {}
    /\ WordCount > MaxWords + 15
    /\ IsRatio(StructureScore, 1, 2)

\* Claim C24 as stated: for every rubric question, the structure score of
\* every transcript of min_words words is exactly 0.5 and that of every
\* transcript of optimal_words words is exactly 1.0.
C24_StructureAtCorners ==
    StructureDone =>
        /\ WordCount = MinWords => IsRatio(StructureScore, 1, 2)
        /\ WordCount = OptimalWords => IsRatio(StructureScore, 1, 1)

\* Claim C24, amended: at min_words words the structure score is 0.5 plus 0.1
\* for each structure indicator in the transcript, three at most (exactly 0.5
\* when there is none); at optimal_words words it is exactly 1.0.
C24_LengthAtCorners ==
    LET Holds(n, k, score) ==
            /\ n = MinWords => IsRatio(score, 5 + Smaller(3, k), 10)
            /\ n = OptimalWords => IsRatio(score, 1, 1)
    IN  StructureDone
            => Holds(WordCount, Cardinality(IndicatorsIn(transcript)), StructureScore)

\* an answer of min_words words with an indicator: 0.6, not 0.5
C24_Witness ==
    /\ StructureDone /\ WordCount = MinWords
    /\ Cardinality(IndicatorsIn(transcript)) = 1
    /\ IsRatio(StructureScore, 6, 10)

\* Claim C25: for every rubric entry and every transcript, the structure
\* score is min(1.0, length_score + min(0.3, 0.1 * k)), k the number of
\* structure indicators found in the lowercased transcript, and it lies
\* between 0 and 1.
C25_StructureScore ==
    LET Holds(length, k, score) ==
            /\ IsRatio(score,
                       Smaller(10 * length[2], 10 * length[1] + Smaller(3, k) * length[2]),
                       10 * length[2])
            /\ 0 <= score.n /\ score.n <= score.d
    IN  StructureDone
            => Holds(LengthCurve(WordCount), Cardinality(IndicatorsIn(transcript)),
                     StructureScore)

\* four indicators earn the bonus of three, and the sum is capped at 1.0 in
\* another state
C25_Witness ==
    /\ StructureDone
    /\ Cardinality(IndicatorsIn(transcript)) = 4
    /\ WordCount = MinWords
    /\ IsRatio(StructureScore, 8, 10)

----------------------------------------------------------------------------
(* Semantic hits (specification Spec) *)

\* the families whose name holds a keyword of the group or is held by one
OverlappingFamilies(group) ==
    {f \in 1..Len(semantic_groups) :
        \E i \in 1..Len(group.keywords) :
            \/ StrIn(group.keywords[i], semantic_groups[f].name)
            \/ StrIn(semantic_groups[f].name, group.keywords[i])}

\* the words of the group's overlapping families that the presence test finds
\* in the normalized text
FamilyWordsPresent(group, text_clean) ==
    UNION {{semantic_groups[f].words[i] : i \in
                {j \in 1..Len(semantic_groups[f].words) :
                    _is_keyword_present(text_clean, semantic_groups[f].words[j])}} :
           f \in OverlappingFamilies(group)}

\* the words recorded as semantic hits under the group
SemanticHits(category, group) ==
    LET Words(hits) == {hits[i] : i \in 1..Len(hits)}
    IN  Words(Get(KeywordResult.matches_found.semantic[category], group.name))

\* Claim C26: a semantic hit is recorded under a (category, group) exactly
\* when some keyword of the group is a substring of a semantic-family name or
\* contains that name and a word of that family is present in the normalized
\* transcript; the hits are those words, tagged; a group none of whose
\* keywords overlaps a family name has no semantic hit, whatever the
\* transcript.
C26_SemanticHits ==
    LET Holds(text_clean) ==
            \A category \in {"essential", "bonus"} :
                \A g \in 1..Len(question_criteria[question_index][category \o "_keywords"]) :
                    LET group == question_criteria[question_index][category \o "_keywords"][g]
                    IN  /\ SemanticHits(category, group)
                            = {w \o " (semantic)" : w \in FamilyWordsPresent(group, text_clean)}
                        /\ group.name \in DOMAIN KeywordResult.matches_found.semantic[category]
                            <=> FamilyWordsPresent(group, text_clean) # {}
                        /\ OverlappingFamilies(group) = {}
                            => SemanticHits(category, group) = {}
    IN  AnyCallDone /\ HasRubric(question_index)
            => Holds(_clean_text(transcript))

\* one group has a semantic hit; another group of the question overlaps no
\* family and has none, although a family's word is in the transcript
C26_Witness ==
    /\ KeywordCallDone /\ HasRubric(question_index)
    /\ \E g \in 1..Len(EssentialGroups) :
          /\ OverlappingFamilies(EssentialGroups[g]) # {}
          /\ SemanticHits("essential", EssentialGroups[g]) # {}
    /\ \E g \in 1..Len(EssentialGroups) :
          /\ OverlappingFamilies(EssentialGroups[g]) = {}
          /\ SemanticHits("essential", EssentialGroups[g]) = {}
    /\ \E f \in 1..Len(semantic_groups) :
          \E i \in 1..Len(semantic_groups[f].words) :
              _is_keyword_present(_clean_text(transcript), semantic_groups[f].words[i])

----------------------------------------------------------------------------
(* The consumers of an evaluation (specification SpecSession) *)

ReportDone == last_call.op = "generate_reports"

\* the evaluation has every field that the test script and the report
\* generator read from it
HasConsumerFields(answer_evaluation) ==
    /\ {"found_required", "missing_required", "coverage_percentage"}
          \subseteq DOMAIN answer_evaluation.keyword_evaluation
    /\ "llm_average" \in DOMAIN answer_evaluation.score_breakdown
    /\ "llm_evaluation" \in DOMAIN answer_evaluation

\* Claim C27: every evaluation that evaluate_single_answer attaches to a
\* question has the fields its consumers read (keyword_evaluation's
\* found_required, missing_required and coverage_percentage, score_breakdown's
\* llm_average, and llm_evaluation), and the text report of a session with
\* at least one evaluated answer is generated without a missing-field error.
C27_ResultsCarryConsumerFields ==
    /\ FullInterviewDone \/ ReportDone =>
          \A i \in EvaluatedItems : HasConsumerFields(questions_data[i].answer_evaluation)
    /\ ReportDone /\ EvaluatedItems # {} => last_call.outcome = "returned"

\* Claim C29: evaluate_full_interview does not modify the session_data of its
\* caller: the call leaves the caller's questions_data items as they were,
\* with no answer_evaluation added or overwritten, and the caller's
\* dictionary without a content_analysis_summary.
C29_CallerSessionUnmodified ==
    [][last_call.op = "none" /\ last_call'.op = "evaluate_full_interview"
          => /\ questions_data' = questions_data
             /\ session_data' = session_data
             /\ "content_analysis_summary" \notin DOMAIN session_data']_vars

----------------------------------------------------------------------------
(* Suggestions and the essential score (specification Spec) *)

\* the essential groups, by position, with semantic hits and no exact hit
SemanticOnly ==
    {g \in Unmet :
        Get(KeywordResult.matches_found.semantic.essential, EssentialGroups[g].name) # <<>>}

\* Claim C30: improvement_suggestions is empty if and only if essential_score
\* is 1.0, which is when every essential group has an exact hit; an essential
\* group covered by semantic hits alone counts toward essential_coverage,
\* keeps the essential score under 1.0 and has a suggestion, so a coverage of
\* 100% does not make the list of suggestions empty.
C30_SuggestionsAndEssentialScore ==
    AnyCallDone /\ HasRubric(question_index) =>
        /\ KeywordResult.improvement_suggestions = <<>>
              <=> KeywordResult.detailed_breakdown.essential_score = 100
        /\ KeywordResult.detailed_breakdown.essential_score = 100 <=> Unmet = {}
        /\ \A g \in SemanticOnly :
              /\ g \in Covered("essential", EssentialGroups)
              /\ Contribution(KeywordResult, "essential", EssentialGroups[g].name) < 10
              /\ KeywordResult.detailed_breakdown.essential_score < 100
              /\ \E k \in 1..Len(KeywordResult.improvement_suggestions) :
                    NamesGroup(KeywordResult.improvement_suggestions[k], EssentialGroups[g])
        /\ Cardinality(Covered("essential", EssentialGroups)) = Len(EssentialGroups)
              /\ SemanticOnly # {}
              => /\ KeywordResult.coverage_analysis.essential_coverage = 1000
                 /\ KeywordResult.improvement_suggestions # <<>>

\* every essential group is covered, one of them by semantic hits alone: the
\* coverage is 100%, the essential score 0.9, and there is a suggestion
C30_Witness ==
    /\ KeywordCallDone /\ HasRubric(question_index)
    /\ KeywordResult.coverage_analysis.essential_coverage = 1000
    /\ SemanticOnly # {}
    /\ KeywordResult.detailed_breakdown.essential_score = 90
    /\ Len(KeywordResult.improvement_suggestions) = 1

----------------------------------------------------------------------------
(* The interview controller (src/main_interview_system.py, class           *)
(* InterviewSystem) from start_interview to the end of the interview       *)
(* (specification SpecController).  Button commands and root.after         *)
(* callbacks run one at a time on Tk's main loop; the speak thread, the    *)
(* silence timer and the process_answer worker run beside it, and a step   *)
(* of theirs is the code between two reads or writes of the controller.    *)
(* The interviewer's Finish button is not pressed: the interview ends when *)
(* auto_next_question runs out of questions and calls finish_interview.    *)

\* the questions of the interview: the first MaxQuestions of self.questions
MaxQuestions == 2

\* most threads running, callbacks waiting and replaced timers running when
\* the Speak button is clicked
MaxPending == 2

\* what the transcription of a recorded answer returns
AnswerTexts == {"python,project,tool"}

\* the world a handler reads and writes
State ==
    [controller |-> controller, questions_data |-> questions_data,
     threads |-> threads, last_call |-> last_call,
     enhanced_session |-> enhanced_session]

Becomes(s) ==
    /\ controller' = s.controller
    /\ questions_data' = s.questions_data
    /\ threads' = s.threads
    /\ last_call' = s.last_call
    /\ enhanced_session' = s.enhanced_session

\* timer.cancel() on self.silence_timeout_timer
cancelled(timer) == IF timer = "waiting" THEN "done" ELSE timer

\* root.after(0, callback)
after(c, callback) == [c EXCEPT !.after = Append(@, callback)]

\* auto_next_question, lines 710-731, up to its call of finish_interview
auto_next_question(s) ==
    LET advanced == [s.controller EXCEPT !.current_question = @ + 1]
    IN  IF advanced.current_question < MaxQuestions
        THEN [s EXCEPT !.controller =
                  [advanced EXCEPT !.speak_btn = "normal", !.next_btn = "disabled"]]
        ELSE [s EXCEPT !.controller = advanced]

\* auto_start_recording, lines 399-421, with start_silence_timeout: the new
\* timer takes the place of the one self.silence_timeout_timer referred to,
\* which keeps running if it was not cancelled
auto_start_recording(s) ==
    [s EXCEPT !.controller =
        [@ EXCEPT !.speak_btn = "disabled",
                  !.next_btn = "normal",
                  !.auto_recording = TRUE,
                  !.is_monitoring = TRUE,
                  !.orphan_timers =
                      IF s.controller.silence_timeout_timer = "waiting" THEN @ + 1 ELSE @,
                  !.silence_timeout_timer = "waiting"]]

\* handle_silence_timeout, lines 433-496
handle_silence_timeout(s) ==
    IF ~s.controller.auto_recording THEN s
    ELSE [s EXCEPT
            !.controller =
                [@ EXCEPT !.auto_recording = FALSE,
                          !.is_monitoring = FALSE,
                          !.silence_timeout_timer = cancelled(@),
                          !.first_speech_time = FALSE,
                          !.delayed = @ + 1],
            !.questions_data =
                Append(@, SetKey(Answer(s.controller.current_question + 1, ""),
                                 "answer_evaluation",
                                 no_response_evaluation(s.controller.current_question)))]

\* next_question, lines 498-527; audio says whether stop_recording returned
\* any recorded chunk
next_question(s, audio) ==
    IF s.controller.auto_recording
    THEN LET stopped == [s.controller EXCEPT
                            !.auto_recording = FALSE,
                            !.is_monitoring = FALSE,
                            !.silence_timeout_timer = cancelled(@),
                            !.next_btn = "disabled"]
         IN  IF audio
             THEN [s EXCEPT !.controller = stopped,
                            !.threads = Append(@, [kind |-> "process_answer",
                                                   pc |-> "start"])]
             ELSE auto_next_question([s EXCEPT !.controller = stopped])
    ELSE auto_next_question(s)

\* the sequence without its i-th element
Without(seq, i) == SubSeq(seq, 1, i - 1) \o SubSeq(seq, i + 1, Len(seq))

Finished == last_call.op = "finish_interview"

\* questions are left: the main loop takes events and the threads run.  When
\* auto_next_question has run out of questions it is inside its call of
\* finish_interview, and that call is the only step there is.
Running == controller.current_question < MaxQuestions

\* the controller after start_interview; no score of the answers recorded
\* here is an exact rounding tie
InitController ==
    /\ NewEvaluator /\ ~round_up_ties
    /\ transcript = ""
    /\ question_index = 0
    /\ last_call = NoCall
    /\ questions_data = <<>>
    /\ session_data = [candidate_name |-> "candidate",
                       questions_data |-> "the list questions_data"]
    /\ enhanced_session = <<>>
    /\ threads = <<>>
    /\ controller = [current_question |-> 0,
                     auto_recording |-> FALSE,
                     is_monitoring |-> FALSE,
                     first_speech_time |-> FALSE,
                     speak_btn |-> "normal",
                     next_btn |-> "disabled",
                     finish_btn |-> "normal",
                     silence_timeout_timer |-> "none",
                     orphan_timers |-> 0,
                     after |-> <<>>,
                     delayed |-> 0]

\* the Speak button: speak_question starts a thread that speaks the question
ClickSpeak ==
    /\ Running
    /\ controller.speak_btn = "normal"
    /\ Len(threads) + Len(controller.after) + controller.orphan_timers < MaxPending
    /\ threads' = IF controller.current_question < MaxQuestions
                  THEN Append(threads, [kind |-> "speak"]) ELSE threads
    /\ UNCHANGED <<evaluator, arguments, last_call, session, controller>>

\* the speak thread, lines 389-394: the question has been spoken
SpeakDone(i) ==
    /\ Running
    /\ threads[i].kind = "speak"
    /\ threads' = Without(threads, i)
    /\ controller' = after([controller EXCEPT !.first_speech_time = FALSE],
                           "auto_start_recording")
    /\ UNCHANGED <<evaluator, arguments, last_call, session>>

\* the monitor thread's callback mark_first_speech
FirstSpeech ==
    /\ Running
    /\ controller.is_monitoring /\ ~controller.first_speech_time
    /\ controller' = [controller EXCEPT !.first_speech_time = TRUE]
    /\ UNCHANGED <<evaluator, arguments, last_call, session, threads>>

\* timeout_handler, lines 425-428, in the timer's thread
timeout_handler(c) ==
    IF c.auto_recording /\ ~c.first_speech_time
    THEN after(c, "handle_silence_timeout") ELSE c

\* the timer self.silence_timeout_timer refers to runs out
TimerFires ==
    /\ Running
    /\ controller.silence_timeout_timer = "waiting"
    /\ controller' = timeout_handler([controller EXCEPT !.silence_timeout_timer = "done"])
    /\ UNCHANGED <<evaluator, arguments, last_call, session, threads>>

\* a timer that was replaced before it was cancelled runs out
OrphanTimerFires ==
    /\ Running
    /\ controller.orphan_timers > 0
    /\ controller' = timeout_handler([controller EXCEPT !.orphan_timers = @ - 1])
    /\ UNCHANGED <<evaluator, arguments, last_call, session, threads>>

\* the Next button
ClickNext(audio) ==
    /\ Running
    /\ controller.next_btn = "normal"
    /\ Becomes(next_question(State, audio))
    /\ UNCHANGED <<evaluator, arguments, session_data>>

\* the main loop runs the callback that root.after(0, ...) queued first
RunCallback ==
    LET Run(callback, s) ==
            CASE callback = "auto_start_recording" -> auto_start_recording(s)
              [] callback = "handle_silence_timeout" -> handle_silence_timeout(s)
              [] callback = "auto_next_question" -> auto_next_question(s)
    IN  /\ Running
        /\ controller.after # <<>>
        /\ Becomes(Run(Head(controller.after),
                       [State EXCEPT !.controller.after = Tail(@)]))
        /\ UNCHANGED <<evaluator, arguments, session_data>>

\* the main loop runs an auto_next_question that handle_silence_timeout
\* queued with root.after(3000, ...)
RunDelayed ==
    /\ Running
    /\ controller.delayed > 0
    /\ Becomes(auto_next_question([State EXCEPT !.controller.delayed = @ - 1]))
    /\ UNCHANGED <<evaluator, arguments, session_data>>

\* process_answer, line 532 to 539: question_num is read, the audio is saved
\* and transcribed
ProcessAnswerStart(i, text) ==
    /\ Running
    /\ threads[i].kind = "process_answer" /\ threads[i].pc = "start"
    /\ threads' = [threads EXCEPT ![i] =
                      [kind |-> "process_answer", pc |-> "evaluate",
                       question_num |-> controller.current_question + 1,
                       transcript |-> text]]
    /\ UNCHANGED <<evaluator, arguments, last_call, session, controller>>

\* process_answer, lines 548-551: question_index is read and the answer is
\* evaluated; an exception takes the thread to line 580
ProcessAnswerEvaluate(i) ==
    LET Continue(evaluation) ==
            IF evaluation.outcome = "raised"
            THEN /\ threads' = Without(threads, i)
                 /\ controller' = after(controller, "auto_next_question")
            ELSE /\ threads' = [threads EXCEPT ![i] =
                        [kind |-> "process_answer", pc |-> "save",
                         question_num |-> threads[i].question_num,
                         transcript |-> threads[i].transcript,
                         answer_evaluation |-> evaluation.value]]
                 /\ UNCHANGED controller
    IN  /\ Running
        /\ threads[i].kind = "process_answer" /\ threads[i].pc = "evaluate"
        /\ Continue(IF controller.current_question >= MaxQuestions
                    THEN Raised("IndexError")
                    ELSE evaluate_single_answer(controller.current_question,
                                                "question", threads[i].transcript))
        /\ UNCHANGED <<evaluator, arguments, last_call, session>>

\* process_answer, lines 558-578: the record is appended and
\* auto_next_question is queued
ProcessAnswerSave(i) ==
    /\ Running
    /\ threads[i].kind = "process_answer" /\ threads[i].pc = "save"
    /\ threads' = Without(threads, i)
    /\ IF controller.current_question >= MaxQuestions
       THEN /\ controller' = after(controller, "auto_next_question")
            /\ UNCHANGED questions_data
       ELSE /\ questions_data' =
                  Append(questions_data,
                         SetKey(Answer(threads[i].question_num, threads[i].transcript),
                                "answer_evaluation", threads[i].answer_evaluation))
            /\ controller' = after([controller EXCEPT !.first_speech_time = FALSE],
                                   "auto_next_question")
    /\ UNCHANGED <<evaluator, arguments, last_call, session_data, enhanced_session>>

\* finish_interview, lines 741-797, called by auto_next_question: recording
\* and timer are stopped, the session is evaluated and the reports are
\* generated; the buttons are disabled only if neither raised
FinishInterview ==
    LET stopped == [controller EXCEPT
                        !.auto_recording = FALSE,
                        !.is_monitoring = IF controller.auto_recording THEN FALSE ELSE @,
                        !.silence_timeout_timer = cancelled(@)]
        Reported(loop, report) ==
            /\ questions_data' = loop.items
            /\ IF loop.exception # ""
               THEN /\ last_call' = Call("finish_interview", Raised(loop.exception))
                    /\ controller' = stopped
                    /\ UNCHANGED enhanced_session
               ELSE /\ last_call' = Call("finish_interview", report)
                    /\ controller' =
                          IF report.outcome = "raised" THEN stopped
                          ELSE [stopped EXCEPT !.speak_btn = "disabled",
                                               !.next_btn = "disabled",
                                               !.finish_btn = "disabled"]
                    /\ enhanced_session' =
                          IF loop.all_scores # <<>>
                          THEN SetKey(session_data, "content_analysis_summary",
                                      content_analysis_summary(loop.all_scores))
                          ELSE session_data
        Finish(loop) == Reported(loop, _generate_text_report(loop.items))
    IN  /\ ~Running /\ ~Finished
        /\ Finish(interview_loop(questions_data, Len(questions_data)))
        /\ UNCHANGED <<evaluator, arguments, session_data, threads>>

NextController ==
    \/ ClickSpeak
    \/ \E i \in 1..Len(threads) : SpeakDone(i)
    \/ FirstSpeech
    \/ TimerFires
    \/ OrphanTimerFires
    \/ \E audio \in BOOLEAN : ClickNext(audio)
    \/ RunCallback
    \/ RunDelayed
    \/ FinishInterview
    \/ \E i \in 1..Len(threads) : \E text \in AnswerTexts : ProcessAnswerStart(i, text)
    \/ \E i \in 1..Len(threads) : ProcessAnswerEvaluate(i)
    \/ \E i \in 1..Len(threads) : ProcessAnswerSave(i)

SpecController == InitController /\ [][NextController]_vars

----------------------------------------------------------------------------
(* Properties of the interview controller (specification SpecController) *)

\* the records of session_data['questions_data'] made for question index
RecordsOf(index) ==
    {k \in 1..Len(questions_data) : questions_data[k].question_number = index + 1}

\* Claim C28: under every interleaving of the Speak and Next clicks, the
\* silence timer with its delayed auto-advance and the answer-processing
\* worker, current_question advances by one per question: when the interview
\* ends by running out of questions, current_question is the number of
\* questions and each question index 0..N-1 has exactly one record in
\* questions_data, with question_number = index + 1; no question is skipped
\* and none is recorded twice or under another question's number.
C28_OneRecordPerQuestion ==
    Finished =>
        /\ controller.current_question = MaxQuestions
        /\ \A index \in 0..(MaxQuestions - 1) : Cardinality(RecordsOf(index)) = 1
        /\ Len(questions_data) = MaxQuestions
        /\ \A k \in 1..Len(questions_data) : questions_data[k].question_number = k
====
